---- MODULE Spec2Model ----
(***************************************************************************)
(* Schedule: recurrence policies as step functions.                        *)
(*                                                                         *)
(* A Schedule is a recipe (an effectful factory) for a step function       *)
(*   (now, input) -> Continue(output, delay) | Done(output) | failure.     *)
(* The model keeps a schedule as a term, the state a driver closes over    *)
(* as a tree of the closures' variables, and a step as an operator that    *)
(* maps (term, state, now, input) to (result, state', trace).              *)
(***************************************************************************)
EXTENDS Integers, Sequences, FiniteSets, TLC

VARIABLES
    sched,      \* the Schedule value under execution (immutable)
    drivers,    \* the driver identities of this run
    stepFn,     \* stepFn[d]: the step function driver d extracted (its closure cell)
    cells,      \* cells[c]: the mutable closure state allocated by one extraction
    solo,       \* solo[d]: a driver of the same schedule stepped alone with d's calls
    clock,      \* the monotonic clock callers read `now` from
    calls,      \* calls[d]: number of step calls made on driver d
    conts,      \* conts[d]: number of those calls that returned Continue
    last,       \* last[d]: the latest call of driver d (arguments, result, trace)
    sleeper     \* the driver made by toStepWithMetadata / toStepWithSleep

vars == <<sched, drivers, stepFn, cells, solo, clock, calls, conts, last, sleeper>>

---------------------------------------------------------------------------
(* Bounds of the model. *)

MaxCalls == 7        \* step calls per driver, one driver
MaxPairCalls == 3    \* step calls per driver, two drivers
MaxNow == 2          \* largest clock reading
MaxTimes == 4        \* largest n of recurs(n) / take(n)
MaxLateNow == 5      \* largest clock reading when a time-driven schedule runs alone
MaxInterval == 3     \* largest interval of spaced(d) / fixed(d)

DriverIds == {1, 2}

---------------------------------------------------------------------------
(* Values: outputs, inputs and failure causes. *)

Num(n) == [k |-> "number", n |-> n]
Dur(ms) == [k |-> "duration", ms |-> ms]
Pair(a, b) == [k |-> "tuple", l |-> a, r |-> b]
Arr(s) == [k |-> "array", items |-> s]
ResultSucceed(v) == [k |-> "Success", success |-> v]
ResultFail(v) == [k |-> "Failure", failure |-> v]
Cause(c) == [k |-> "cause", error |-> c]
HttpError(i, b) == [k |-> "HttpError", status |-> i, retryable |-> b]

Inputs == {HttpError(503, TRUE), HttpError(401, FALSE)}

Nil == [nil |-> TRUE]

(* Step results: a Pull of [output, delay] whose Done carries an output. *)
Continue(o, d) == [tag |-> "Continue", out |-> o, delay |-> d]
Done(o) == [tag |-> "Done", out |-> o]
Failure(c) == [tag |-> "Fail", cause |-> c]

(* What calling a user function yields: a plain value or an effect's exit. *)
Plain(v) == [isEffect |-> FALSE, ok |-> TRUE, val |-> v]
Succeed(v) == [isEffect |-> TRUE, ok |-> TRUE, val |-> v]
FailWith(c) == [isEffect |-> TRUE, ok |-> FALSE, val |-> Cause(c)]

(* Trace of one call: which step functions and user functions ran. *)
Stepped(p, now, input, r) == [e |-> "step", at |-> p, now |-> now, input |-> input, res |-> r]
Hooked(p, x) == [e |-> "hook", at |-> p, ok |-> x.ok,
                 cause |-> IF x.ok THEN Nil ELSE x.val]

(* A predicate call also records the metadata it saw and what it answered. *)
Checked(p, md, x) == Hooked(p, x) @@ [arg |-> md, val |-> x.val]

(* A tap call also records the value it was given. *)
Tapped(p, arg, x) == Hooked(p, x) @@ [arg |-> arg]

Max(a, b) == IF a >= b THEN a ELSE b
Min(a, b) == IF a <= b THEN a ELSE b

RECURSIVE Pow(_, _)
Pow(b, e) == IF e = 0 THEN 1 ELSE b * Pow(b, e - 1)

---------------------------------------------------------------------------
(* Effect primitives the combinators are written with, on step results. *)

(* effect.map(r, f): mapped is f applied to the value r succeeded with. *)
effectMap(r, mapped) == IF r.tag = "Continue" THEN mapped ELSE r
(* effect.flatMap(r, f): next is the effect f returns for that value. *)
effectFlatMap(r, next) == IF r.tag = "Continue" THEN next ELSE r
(* Pull.catchDone(r, f): handled is the effect f returns for the Done of r. *)
catchDone(r, handled) == IF r.tag = "Done" THEN handled ELSE r

---------------------------------------------------------------------------
(* Metadata tracker. *)

metadataFn == [n |-> 0, hasPrevious |-> FALSE, previous |-> 0,
               hasStart |-> FALSE, start |-> 0]

(* The tracker reading the clock itself instead of using the now it is given. *)
metaReadsClock(m, now, input) ==
    LET start == IF ~m.hasStart THEN clock ELSE m.start
        elapsed == clock - start
        elapsedSincePrevious == IF ~m.hasPrevious THEN 0 ELSE clock - m.previous
    IN [st |-> [n |-> m.n + 1, hasPrevious |-> TRUE, previous |-> clock,
                hasStart |-> TRUE, start |-> start],
        md |-> [input |-> input, attempt |-> m.n + 1, start |-> start, now |-> clock,
                elapsed |-> elapsed, elapsedSincePrevious |-> elapsedSincePrevious]]

meta(m, now, input) ==
    LET start == IF ~m.hasStart THEN now ELSE m.start
        elapsed == now - start
        elapsedSincePrevious == IF ~m.hasPrevious THEN 0 ELSE now - m.previous
    IN [st |-> [n |-> m.n + 1, hasPrevious |-> TRUE, previous |-> now,
                hasStart |-> TRUE, start |-> start],
        md |-> [input |-> input, attempt |-> m.n + 1, start |-> start, now |-> now,
                elapsed |-> elapsed, elapsedSincePrevious |-> elapsedSincePrevious]]

---------------------------------------------------------------------------
(* User functions handed to the combinators. *)

(* A step function handed to fromStepWithMetadata: it returns the metadata it is given. *)
metadataStep(F, md) ==
    CASE F.fn = "echo" -> Continue(md, 0)

predicate(P, md) ==
    CASE P.fn = "attemptLE" -> Succeed(md.attempt <= P.n)
      [] P.fn = "true" -> Succeed(TRUE)
      [] P.fn = "outputLE" -> Succeed(md.output.ms <= P.n)
      [] P.fn = "retryable" -> Plain(md.input.retryable)
      [] P.fn = "failsAt" -> IF md.attempt = P.n THEN FailWith("predicate") ELSE Succeed(TRUE)

(* The collecting combine inserting at the front (unshift for push). *)
reduceCombinePrepends(C, state, output) ==
    CASE C.fn = "push" ->
            LET outputs == Arr(<<output>> \o state.items)
            IN Plain(outputs) @@ [mutated |-> outputs]
      [] C.fn = "sum" -> Plain(Num(state.n + output.n)) @@ [mutated |-> state]
      [] C.fn = "sumEffect" -> Succeed(Num(state.n + output.n)) @@ [mutated |-> state]
      [] C.fn = "failsAt" ->
            (IF output.n = C.n THEN FailWith("combine") ELSE Succeed(Num(state.n + output.n)))
                @@ [mutated |-> state]

(* combine of reduce: `mutated` is the state object after the call's in-place writes. *)
reduceCombine(C, state, output) ==
    CASE C.fn = "push" ->
            LET outputs == Arr(Append(state.items, output))
            IN Plain(outputs) @@ [mutated |-> outputs]
      [] C.fn = "sum" -> Plain(Num(state.n + output.n)) @@ [mutated |-> state]
      [] C.fn = "sumEffect" -> Succeed(Num(state.n + output.n)) @@ [mutated |-> state]
      [] C.fn = "failsAt" ->
            (IF output.n = C.n THEN FailWith("combine") ELSE Succeed(Num(state.n + output.n)))
                @@ [mutated |-> state]

(* combine of bothWith / eitherWith. *)
combine(C, l, r) ==
    CASE C.fn = "tuple" -> Pair(l, r)
      [] C.fn = "left" -> l
      [] C.fn = "right" -> r

(* f of map. *)
mapFn(F, output) ==
    CASE F.fn = "Result.succeed" -> Plain(ResultSucceed(output))
      [] F.fn = "Result.fail" -> Plain(ResultFail(output))
      [] F.fn = "Result.merge" ->
            Succeed(IF output.k = "Success" THEN output.success ELSE output.failure)
      [] F.fn = "inc" -> Plain(Num(output.n + 1))
      [] F.fn = "incEffect" -> Succeed(Num(output.n + 1))
      [] F.fn = "failsAt" -> IF output.n = F.n THEN FailWith("map") ELSE Succeed(output)

(* f of modifyDelay; rnd is the numerator of the random draw rnd / RandomDen. *)
RandomDen == 4

(* Jitter spreading over 50% .. 150% of the delay. *)
delayFnWideJitter(F, output, delay, rnd) ==
    CASE F.fn = "jitter" ->
            Succeed((delay * 5 * (RandomDen - rnd) + delay * 15 * rnd) \div (10 * RandomDen))
      [] F.fn = "add" -> Succeed(F.n + delay)
      [] F.fn = "const" -> Succeed(F.n)
      [] F.fn = "failsAt" -> IF output.n = F.n THEN FailWith("delay") ELSE Succeed(delay)

delayFn(F, output, delay, rnd) ==
    CASE F.fn = "jitter" ->
            Succeed((delay * 8 * (RandomDen - rnd) + delay * 12 * rnd) \div (10 * RandomDen))
      [] F.fn = "add" -> Succeed(F.n + delay)
      [] F.fn = "const" -> Succeed(F.n)
      [] F.fn = "failsAt" -> IF output.n = F.n THEN FailWith("delay") ELSE Succeed(delay)

(* f of tapInput / tapOutput. *)
tapFn(F, x) ==
    CASE F.fn = "log" -> Succeed(Nil)
      [] F.fn = "failsOnInput" -> IF x.retryable THEN Succeed(Nil) ELSE FailWith("tap")
      [] F.fn = "failsAt" -> IF x.n = F.n THEN FailWith("tap") ELSE Succeed(Nil)

(* next of unfold. *)
unfoldNext(F, state) ==
    CASE F.fn = "inc" -> Succeed(Num(state.n + 1))
      [] F.fn = "failsAt" -> IF state.n = F.n THEN FailWith("next") ELSE Succeed(Num(state.n + 1))

---------------------------------------------------------------------------
(* Schedule values: constructors and combinators build immutable terms. *)

spaced(d) == [op |-> "spaced", d |-> d]
forever == spaced(0)
fixed(d) == [op |-> "fixed", window |-> d]
windowed(d) == [op |-> "windowed", window |-> d]
exponential(base, factor) == [op |-> "exponential", base |-> base, factor |-> factor]
fibonacci(one) == [op |-> "fibonacci", one |-> one]
fromStepWithMetadata(f) == [op |-> "fromStepWithMetadata", f |-> f]
cron(expression) == [op |-> "cron", expression |-> expression]
elapsed == [op |-> "elapsed"]
duration(d) == [op |-> "duration", d |-> d]
identity == [op |-> "identity"]
unfold(initial, next) == [op |-> "unfold", initial |-> initial, next |-> next]

while_(self, p) == [op |-> "while", self |-> self, predicate |-> p]
map(self, f) == [op |-> "map", self |-> self, f |-> f]
modifyDelay(self, f) == [op |-> "modifyDelay", self |-> self, f |-> f]
reduce(self, initial, c) == [op |-> "reduce", self |-> self, initial |-> initial, combine |-> c]
passthrough(self) == [op |-> "passthrough", self |-> self]
delays(self) == [op |-> "delays", self |-> self]
tapInput(self, f) == [op |-> "tapInput", self |-> self, f |-> f]
tapOutput(self, f) == [op |-> "tapOutput", self |-> self, f |-> f]
bothWith(self, other, c) == [op |-> "bothWith", self |-> self, other |-> other, combine |-> c]
eitherWith(self, other, c) == [op |-> "eitherWith", self |-> self, other |-> other, combine |-> c]
andThenResult(self, other) == [op |-> "andThenResult", self |-> self, other |-> other]

(* recurs with the bound off by one (attempt < times). *)
recursStrict(times) == while_(forever, [fn |-> "attemptLE", n |-> times - 1])

recurs(times) == while_(forever, [fn |-> "attemptLE", n |-> times])
(* take letting one more step through (attempt <= n + 1). *)
takeOneMore(self, n) == while_(self, [fn |-> "attemptLE", n |-> n + 1])
take(self, n) == while_(self, [fn |-> "attemptLE", n |-> n])
(* during stopping as soon as the elapsed time reaches d. *)
duringStrict(d) == while_(elapsed, [fn |-> "outputLE", n |-> d - 1])

during(d) == while_(elapsed, [fn |-> "outputLE", n |-> d])
(* addDelay taking the duration away from the delay. *)
addDelaySubtracts(self, d) == modifyDelay(self, [fn |-> "add", n |-> 0 - d])

addDelay(self, d) == modifyDelay(self, [fn |-> "add", n |-> d])
jittered(self) == modifyDelay(self, [fn |-> "jitter"])
collectWhile(self, p) == reduce(while_(self, p), Arr(<<>>), [fn |-> "push"])
collectOutputs(self) == collectWhile(self, [fn |-> "true"])
collectInputs(self) == collectWhile(passthrough(self), [fn |-> "true"])
both(self, other) == bothWith(self, other, [fn |-> "tuple"])
bothLeft(self, other) == bothWith(self, other, [fn |-> "left"])
bothRight(self, other) == bothWith(self, other, [fn |-> "right"])
either(self, other) == eitherWith(self, other, [fn |-> "tuple"])
andThen(self, other) == map(andThenResult(self, other), [fn |-> "Result.merge"])
(* compose as the sequential chain its documentation describes. *)
composeSequential(self, other) == andThen(self, other)
compose(self, other) == both(self, other)

---------------------------------------------------------------------------
(* Running a schedule's step factory: the closure variables of a fresh driver. *)

(* Cron.parse and Cron.next: an expression is well formed or not, and a well
   formed one fires at every multiple of its period. *)
CronParseError == [k |-> "CronParseError"]

CronParse(expression) ==
    IF expression.wellFormed THEN ResultSucceed(expression) ELSE ResultFail(CronParseError)

CronNext(c, now) == ((now \div c.every) + 1) * c.every

(* cron: the step factory is the parse result mapped to the step function, so
   it fails with the parse error when the expression is not well formed. *)
cronFactory(S) ==
    LET parsed == CronParse(S.expression)
    IN IF parsed.k = "Success" THEN [cron |-> parsed.success]
       ELSE [failed |-> Cause(parsed.failure)]

(* toStep catching a failure of the factory with a cause of its own. *)
catchCauseAsDefect(st) ==
    IF "failed" \in DOMAIN st THEN [failCause |-> Cause([k |-> "Defect"])] ELSE st

(* toStep: a failed step factory becomes a step function that fails with the
   factory's cause on every call. *)
catchCause(st) ==
    IF "failed" \in DOMAIN st THEN [failCause |-> st.failed] ELSE st

RECURSIVE factory(_)
factory(S) ==
    CASE S.op \in {"spaced", "fixed", "windowed", "exponential", "elapsed", "duration",
                    "fromStepWithMetadata"} ->
            [meta |-> metadataFn]
      [] S.op = "fibonacci" -> [a |-> 0, b |-> S.one]
      [] S.op = "unfold" -> [state |-> S.initial]
      [] S.op = "identity" -> Nil
      [] S.op = "cron" -> cronFactory(S)
      [] S.op = "while" -> [meta |-> metadataFn, inner |-> catchCause(factory(S.self))]
      [] S.op \in {"map", "modifyDelay", "passthrough", "delays", "tapInput", "tapOutput"} ->
            [inner |-> catchCause(factory(S.self))]
      [] S.op = "reduce" -> [state |-> S.initial, inner |-> catchCause(factory(S.self))]
      [] S.op \in {"bothWith", "eitherWith"} ->
            [left |-> catchCause(factory(S.self)), right |-> catchCause(factory(S.other))]
      [] S.op = "andThenResult" -> [currentSide |-> 0, hasStep |-> FALSE, current |-> Nil]

---------------------------------------------------------------------------
(* Step functions. Each returns [res, st, ev]: the result, the closure state
   after the call and the trace of the call. p is the position of the term. *)

RECURSIVE Step(_, _, _, _, _, _)

Ret(res, st, ev) == [res |-> res, st |-> st, ev |-> ev]

(* spaced counting its delay from the previous step instead of from now. *)
spacedStepFromLast(S, st, now, input) ==
    LET m == meta(st.meta, now, input)
    IN Ret(Continue(Num(m.md.attempt - 1), Max(0, S.d - m.md.elapsedSincePrevious)),
           [meta |-> m.st], <<>>)

spacedStep(S, st, now, input) ==
    LET m == meta(st.meta, now, input)
    IN Ret(Continue(Num(m.md.attempt - 1), S.d), [meta |-> m.st], <<>>)

fromStepWithMetadataStep(S, st, now, input) ==
    LET m == meta(st.meta, now, input)
    IN Ret(metadataStep(S.f, m.md), [meta |-> m.st], <<>>)

cronStep(S, st, now) ==
    LET next == CronNext(st.cron, now)
    IN Ret(Continue(Dur(next - now), next - now), st, <<>>)

(* fixed without the modulo: the time left of the first window only. *)
fixedStepUnclamped(S, st, now, input) ==
    LET m == meta(st.meta, now, input)
    IN Ret(Continue(Num(m.md.attempt - 1),
                    IF S.window = 0 THEN 0 ELSE S.window - m.md.elapsed),
           [meta |-> m.st], <<>>)

fixedStep(S, st, now, input) ==
    LET m == meta(st.meta, now, input)
    IN Ret(Continue(Num(m.md.attempt - 1),
                    IF S.window = 0 THEN 0 ELSE S.window - (m.md.elapsed % S.window)),
           [meta |-> m.st], <<>>)

(* exponential raising the factor to the attempt number. *)
exponentialStepFromAttempt(S, st, now, input) ==
    LET m == meta(st.meta, now, input)
        d == S.base * Pow(S.factor, m.md.attempt)
    IN Ret(Continue(Dur(d), d), [meta |-> m.st], <<>>)

exponentialStep(S, st, now, input) ==
    LET m == meta(st.meta, now, input)
        d == S.base * Pow(S.factor, m.md.attempt - 1)
    IN Ret(Continue(Dur(d), d), [meta |-> m.st], <<>>)

fibonacciStep(S, st) ==
    LET next == st.a + st.b
    IN Ret(Continue(Dur(next), next), [a |-> st.b, b |-> next], <<>>)

elapsedStep(S, st, now, input) ==
    LET m == meta(st.meta, now, input)
    IN Ret(Continue(Dur(m.md.elapsed), 0), [meta |-> m.st], <<>>)

(* duration continuing on its first two steps. *)
durationStepTwice(S, st, now, input) ==
    LET m == meta(st.meta, now, input)
    IN Ret(IF m.md.attempt <= 2 THEN Continue(Dur(S.d), S.d) ELSE Done(Dur(0)),
           [meta |-> m.st], <<>>)

durationStep(S, st, now, input) ==
    LET m == meta(st.meta, now, input)
    IN Ret(IF m.md.attempt = 1 THEN Continue(Dur(S.d), S.d) ELSE Done(Dur(0)),
           [meta |-> m.st], <<>>)

identityStep(S, st, input) == Ret(Continue(input, 0), st, <<>>)

unfoldStep(S, st, p) ==
    LET x == unfoldNext(S.next, st.state)
    IN IF x.ok THEN Ret(Continue(st.state, 0), [state |-> x.val], <<Hooked(p, x)>>)
       ELSE Ret(Failure(x.val), st, <<Hooked(p, x)>>)

(* while with the test inverted: it goes on until the predicate holds. *)
whileStepUntil(S, st, p, now, input, rnd) ==
    LET r == Step(S.self, st.inner, p \o <<1>>, now, input, rnd)
    IN IF r.res.tag # "Continue" THEN Ret(r.res, [st EXCEPT !.inner = r.st], r.ev)
       ELSE LET m == meta(st.meta, now, input)
                md == m.md @@ [output |-> r.res.out, duration |-> r.res.delay]
                eff == predicate(S.predicate, md)
                st2 == [meta |-> m.st, inner |-> r.st]
                ev == r.ev \o <<Checked(p, md, eff)>>
            IN IF ~eff.ok THEN Ret(Failure(eff.val), st2, ev)
               ELSE IF ~eff.val THEN Ret(r.res, st2, ev)
               ELSE Ret(Done(r.res.out), st2, ev)

whileStep(S, st, p, now, input, rnd) ==
    LET r == Step(S.self, st.inner, p \o <<1>>, now, input, rnd)
    IN IF r.res.tag # "Continue" THEN Ret(r.res, [st EXCEPT !.inner = r.st], r.ev)
       ELSE LET m == meta(st.meta, now, input)
                md == m.md @@ [output |-> r.res.out, duration |-> r.res.delay]
                eff == predicate(S.predicate, md)
                st2 == [meta |-> m.st, inner |-> r.st]
                ev == r.ev \o <<Checked(p, md, eff)>>
            IN IF ~eff.ok THEN Ret(Failure(eff.val), st2, ev)
               ELSE IF eff.val THEN Ret(r.res, st2, ev)
               ELSE Ret(Done(r.res.out), st2, ev)

mapStep(S, st, p, now, input, rnd) ==
    LET r == Step(S.self, st.inner, p \o <<1>>, now, input, rnd)
        st2 == [inner |-> r.st]
    IN IF r.res.tag = "Fail" THEN Ret(r.res, st2, r.ev)
       ELSE LET x == mapFn(S.f, r.res.out)
                ev == r.ev \o <<Hooked(p, x)>>
            IN IF ~x.ok THEN Ret(Failure(x.val), st2, ev)
               ELSE IF r.res.tag = "Continue" THEN Ret(Continue(x.val, r.res.delay), st2, ev)
               ELSE Ret(Done(x.val), st2, ev)

modifyDelayStep(S, st, p, now, input, rnd) ==
    LET r == Step(S.self, st.inner, p \o <<1>>, now, input, rnd)
        st2 == [inner |-> r.st]
    IN IF r.res.tag # "Continue" THEN Ret(r.res, st2, r.ev)
       ELSE LET x == delayFn(S.f, r.res.out, r.res.delay, rnd)
                ev == r.ev \o <<Hooked(p, x)>>
            IN IF ~x.ok THEN Ret(Failure(x.val), st2, ev)
               ELSE Ret(Continue(r.res.out, x.val), st2, ev)

reduceStep(S, st, p, now, input, rnd) ==
    LET r == Step(S.self, st.inner, p \o <<1>>, now, input, rnd)
    IN IF r.res.tag = "Fail" THEN Ret(r.res, [st EXCEPT !.inner = r.st], r.ev)
       ELSE LET next == reduceCombine(S.combine, st.state, r.res.out)
                ev == r.ev \o <<Hooked(p, next)>>
                kept == [state |-> next.mutated, inner |-> r.st]
            IN IF r.res.tag = "Continue"
               THEN IF ~next.isEffect THEN Ret(Continue(next.val, r.res.delay), kept, ev)
                    ELSE IF next.ok
                    THEN Ret(Continue(next.val, r.res.delay),
                             [state |-> next.val, inner |-> r.st], ev)
                    ELSE Ret(Failure(next.val), kept, ev)
               ELSE IF next.ok THEN Ret(Done(next.val), kept, ev)
                    ELSE Ret(Failure(next.val), kept, ev)

(* passthrough keeping the output of the schedule it wraps. *)
passthroughStepKeepsOutput(S, st, p, now, input, rnd) ==
    LET r == Step(S.self, st.inner, p \o <<1>>, now, input, rnd)
    IN Ret(r.res, [inner |-> r.st], r.ev)

passthroughStep(S, st, p, now, input, rnd) ==
    LET r == Step(S.self, st.inner, p \o <<1>>, now, input, rnd)
        res == CASE r.res.tag = "Continue" -> Continue(input, r.res.delay)
                 [] r.res.tag = "Fail" -> r.res
                 [] r.res.tag = "Done" -> Done(input)
    IN Ret(res, [inner |-> r.st], r.ev)

delaysStep(S, st, p, now, input, rnd) ==
    LET r == Step(S.self, st.inner, p \o <<1>>, now, input, rnd)
        res == catchDone(effectMap(r.res, Continue(Dur(r.res.delay), r.res.delay)),
                         Done(Dur(0)))
    IN Ret(res, [inner |-> r.st], r.ev)

(* tapInput that ignores a failure of f. *)
tapInputStepIgnoresFailure(S, st, p, now, input, rnd) ==
    LET x == tapFn(S.f, input)
        r == Step(S.self, st.inner, p \o <<1>>, now, input, rnd)
    IN Ret(r.res, [inner |-> r.st], <<Tapped(p, input, x)>> \o r.ev)

tapInputStep(S, st, p, now, input, rnd) ==
    LET x == tapFn(S.f, input)
    IN IF ~x.ok THEN Ret(Failure(x.val), st, <<Tapped(p, input, x)>>)
       ELSE LET r == Step(S.self, st.inner, p \o <<1>>, now, input, rnd)
            IN Ret(r.res, [inner |-> r.st], <<Tapped(p, input, x)>> \o r.ev)

(* tapOutput running its function on the output of a Done as well. *)
tapOutputStepTapsDone(S, st, p, now, input, rnd) ==
    LET r == Step(S.self, st.inner, p \o <<1>>, now, input, rnd)
        st2 == [inner |-> r.st]
    IN IF r.res.tag = "Fail" THEN Ret(r.res, st2, r.ev)
       ELSE LET x == tapFn(S.f, r.res.out)
                ev == r.ev \o <<Tapped(p, r.res.out, x)>>
            IN IF ~x.ok THEN Ret(Failure(x.val), st2, ev) ELSE Ret(r.res, st2, ev)

(* tapOutput returning what its function returned in place of the step's delay. *)
tapOutputStepDropsDelay(S, st, p, now, input, rnd) ==
    LET r == Step(S.self, st.inner, p \o <<1>>, now, input, rnd)
        st2 == [inner |-> r.st]
    IN IF r.res.tag # "Continue" THEN Ret(r.res, st2, r.ev)
       ELSE LET x == tapFn(S.f, r.res.out)
                ev == r.ev \o <<Tapped(p, r.res.out, x)>>
            IN IF ~x.ok THEN Ret(Failure(x.val), st2, ev)
               ELSE Ret(Continue(r.res.out, 0), st2, ev)

tapOutputStep(S, st, p, now, input, rnd) ==
    LET r == Step(S.self, st.inner, p \o <<1>>, now, input, rnd)
        st2 == [inner |-> r.st]
    IN IF r.res.tag # "Continue" THEN Ret(r.res, st2, r.ev)
       ELSE LET x == tapFn(S.f, r.res.out)
                ev == r.ev \o <<Tapped(p, r.res.out, x)>>
            IN IF ~x.ok THEN Ret(Failure(x.val), st2, ev) ELSE Ret(r.res, st2, ev)

(* windowed aligned to the boundaries of the absolute clock. *)
windowedStepAbsolute(S, st, now, input) ==
    LET m == meta(st.meta, now, input)
    IN Ret(Continue(Num(m.md.attempt - 1),
                    IF S.window = 0 THEN 0 ELSE S.window - (now % S.window)),
           [meta |-> m.st], <<>>)

windowedStep(S, st, now, input) ==
    LET m == meta(st.meta, now, input)
    IN Ret(Continue(Num(m.md.attempt - 1),
                    IF S.window = 0 THEN 0 ELSE S.window - (m.md.elapsed % S.window)),
           [meta |-> m.st], <<>>)

(* bothWith that keeps going on the left delay when only the right side is Done. *)
bothWithResultLenient(C, l, r) ==
    IF l.tag = "Continue"
    THEN LET e == effectMap(r, Continue(combine(C, l.out, r.out), Max(l.delay, r.delay)))
         IN catchDone(e, Continue(combine(C, l.out, e.out), l.delay))
    ELSE LET e == effectFlatMap(r, Done(combine(C, l.out, r.out)))
         IN catchDone(e, Done(combine(C, l.out, e.out)))

(* bothWith taking the smaller of the two delays. *)
bothWithResultMin(C, l, r) ==
    IF l.tag = "Continue"
    THEN LET e == effectMap(r, Continue(combine(C, l.out, r.out), Min(l.delay, r.delay)))
         IN catchDone(e, Done(combine(C, l.out, e.out)))
    ELSE LET e == effectFlatMap(r, Done(combine(C, l.out, r.out)))
         IN catchDone(e, Done(combine(C, l.out, e.out)))

(* bothWith: the right step runs only when the left step did not fail. *)
bothWithResult(C, l, r) ==
    IF l.tag = "Continue"
    THEN LET e == effectMap(r, Continue(combine(C, l.out, r.out), Max(l.delay, r.delay)))
         IN catchDone(e, Done(combine(C, l.out, e.out)))
    ELSE LET e == effectFlatMap(r, Done(combine(C, l.out, r.out)))
         IN catchDone(e, Done(combine(C, l.out, e.out)))

(* bothWith stepping the right side even when the left step failed. *)
bothWithStepStepsRight(S, st, p, now, input, rnd) ==
    LET l == Step(S.self, st.left, p \o <<1>>, now, input, rnd)
        r == Step(S.other, st.right, p \o <<2>>, now, input, rnd)
    IN Ret(IF l.res.tag = "Fail" THEN l.res ELSE bothWithResult(S.combine, l.res, r.res),
           [left |-> l.st, right |-> r.st], l.ev \o r.ev)

bothWithStep(S, st, p, now, input, rnd) ==
    LET l == Step(S.self, st.left, p \o <<1>>, now, input, rnd)
    IN IF l.res.tag = "Fail" THEN Ret(l.res, [st EXCEPT !.left = l.st], l.ev)
       ELSE LET r == Step(S.other, st.right, p \o <<2>>, now, input, rnd)
            IN Ret(bothWithResult(S.combine, l.res, r.res),
                   [left |-> l.st, right |-> r.st], l.ev \o r.ev)

(* eitherWith that stops as soon as the right side is Done. *)
eitherWithResultStrict(C, l, r) ==
    IF l.tag = "Continue"
    THEN LET e == effectMap(r, Continue(combine(C, l.out, r.out), Min(l.delay, r.delay)))
         IN catchDone(e, Done(combine(C, l.out, e.out)))
    ELSE LET e == effectMap(r, Continue(combine(C, l.out, r.out), r.delay))
         IN catchDone(e, Done(combine(C, l.out, e.out)))

(* eitherWith waiting for the slower side while both continue. *)
eitherWithResultMax(C, l, r) ==
    IF l.tag = "Continue"
    THEN LET e == effectMap(r, Continue(combine(C, l.out, r.out), Max(l.delay, r.delay)))
         IN catchDone(e, Continue(combine(C, l.out, e.out), l.delay))
    ELSE LET e == effectMap(r, Continue(combine(C, l.out, r.out), r.delay))
         IN catchDone(e, Done(combine(C, l.out, e.out)))

eitherWithResult(C, l, r) ==
    IF l.tag = "Continue"
    THEN LET e == effectMap(r, Continue(combine(C, l.out, r.out), Min(l.delay, r.delay)))
         IN catchDone(e, Continue(combine(C, l.out, e.out), l.delay))
    ELSE LET e == effectMap(r, Continue(combine(C, l.out, r.out), r.delay))
         IN catchDone(e, Done(combine(C, l.out, e.out)))

(* eitherWith remembering that it was Done: once both sides were Done on a
   call, later calls return that Done without stepping the sides. *)
eitherWithStepLatches(S, st, p, now, input, rnd) ==
    IF "done" \in DOMAIN st THEN Ret(st.done, st, <<>>)
    ELSE LET l == Step(S.self, st.left, p \o <<1>>, now, input, rnd)
         IN IF l.res.tag = "Fail" THEN Ret(l.res, [st EXCEPT !.left = l.st], l.ev)
            ELSE LET r == Step(S.other, st.right, p \o <<2>>, now, input, rnd)
                     res == eitherWithResult(S.combine, l.res, r.res)
                     st2 == [left |-> l.st, right |-> r.st]
                 IN Ret(res, IF res.tag = "Done" THEN st2 @@ [done |-> res] ELSE st2,
                        l.ev \o r.ev)

eitherWithStep(S, st, p, now, input, rnd) ==
    LET l == Step(S.self, st.left, p \o <<1>>, now, input, rnd)
    IN IF l.res.tag = "Fail" THEN Ret(l.res, [st EXCEPT !.left = l.st], l.ev)
       ELSE LET r == Step(S.other, st.right, p \o <<2>>, now, input, rnd)
            IN Ret(eitherWithResult(S.combine, l.res, r.res),
                   [left |-> l.st, right |-> r.st], l.ev \o r.ev)

(* andThenResult: currentSide counts the extractions made so far (0, 1, 2);
   current is the closure state of the side being driven. *)
andThenLeft(S) == map(S.self, [fn |-> "Result.succeed"])
(* The second phase driving the first schedule again. *)
andThenRightDrivesSelf(S) == map(S.self, [fn |-> "Result.fail"])
andThenRight(S) == map(S.other, [fn |-> "Result.fail"])

(* The second phase handing control back to the first once it is Done. *)
andThenRightStepRestarts(S, st, p, now, input, rnd, ev0) ==
    LET cur == IF st.hasStep THEN st.current ELSE catchCause(factory(andThenRight(S)))
        r == Step(andThenRight(S), cur, p \o <<2>>, now, input, rnd)
    IN Ret(r.res,
           IF r.res.tag = "Done"
           THEN [currentSide |-> 0, hasStep |-> FALSE, current |-> Nil]
           ELSE [currentSide |-> IF st.hasStep THEN st.currentSide ELSE st.currentSide + 1,
                 hasStep |-> TRUE, current |-> r.st],
           ev0 \o r.ev)

andThenRightStep(S, st, p, now, input, rnd, ev0) ==
    \* currentStep is the right step (extracted here when it is still undefined)
    LET cur == IF st.hasStep THEN st.current ELSE catchCause(factory(andThenRight(S)))
        r == Step(andThenRight(S), cur, p \o <<2>>, now, input, rnd)
    IN Ret(r.res, [currentSide |-> IF st.hasStep THEN st.currentSide ELSE st.currentSide + 1,
                   hasStep |-> TRUE, current |-> r.st], ev0 \o r.ev)

(* andThenResult moving on to the second schedule when the first one fails. *)
andThenResultStepSwitchesOnFailure(S, st, p, now, input, rnd) ==
    LET s1 == IF ~st.hasStep /\ st.currentSide = 0
              THEN [currentSide |-> 1, hasStep |-> TRUE, current |-> catchCause(factory(andThenLeft(S)))]
              ELSE st
    IN IF s1.hasStep /\ s1.currentSide = 1
       THEN LET l == Step(andThenLeft(S), s1.current, p \o <<1>>, now, input, rnd)
            IN IF l.res.tag = "Continue" THEN Ret(l.res, [s1 EXCEPT !.current = l.st], l.ev)
               ELSE andThenRightStep(S, [s1 EXCEPT !.hasStep = FALSE, !.current = Nil],
                                     p, now, input, rnd, l.ev)
       ELSE andThenRightStep(S, s1, p, now, input, rnd, <<>>)

(* andThenResult extracting the second schedule at once and stepping it
   along with the first, so that it has already run when its phase starts. *)
andThenResultStepEager(S, st, p, now, input, rnd) ==
    LET s1 == IF ~st.hasStep /\ st.currentSide = 0
              THEN [currentSide |-> 1, hasStep |-> TRUE, current |-> catchCause(factory(andThenLeft(S)))]
              ELSE st
        e0 == IF "eager" \in DOMAIN st THEN st.eager ELSE catchCause(factory(andThenRight(S)))
    IN IF s1.hasStep /\ s1.currentSide = 1
       THEN LET l == Step(andThenLeft(S), s1.current, p \o <<1>>, now, input, rnd)
                e == Step(andThenRight(S), e0, p \o <<2>>, now, input, rnd)
            IN IF l.res.tag # "Done"
               THEN Ret(l.res, [eager |-> e.st] @@ [s1 EXCEPT !.current = l.st], l.ev)
               ELSE LET r == Step(andThenRight(S), e.st, p \o <<2>>, now, input, rnd)
                    IN Ret(r.res, [currentSide |-> 2, hasStep |-> TRUE, current |-> r.st],
                           l.ev \o r.ev)
       ELSE andThenRightStep(S, s1, p, now, input, rnd, <<>>)

andThenResultStep(S, st, p, now, input, rnd) ==
    LET s1 == IF ~st.hasStep /\ st.currentSide = 0
              THEN [currentSide |-> 1, hasStep |-> TRUE, current |-> catchCause(factory(andThenLeft(S)))]
              ELSE st
    IN IF s1.hasStep /\ s1.currentSide = 1
       THEN LET l == Step(andThenLeft(S), s1.current, p \o <<1>>, now, input, rnd)
            IN IF l.res.tag # "Done" THEN Ret(l.res, [s1 EXCEPT !.current = l.st], l.ev)
               ELSE andThenRightStep(S, [s1 EXCEPT !.hasStep = FALSE, !.current = Nil],
                                     p, now, input, rnd, l.ev)
       ELSE andThenRightStep(S, s1, p, now, input, rnd, <<>>)

Step(S, st, p, now, input, rnd) ==
    LET r == CASE "failCause" \in DOMAIN st -> Ret(Failure(st.failCause), st, <<>>)
               [] S.op = "cron" -> cronStep(S, st, now)
               [] S.op = "fromStepWithMetadata" -> fromStepWithMetadataStep(S, st, now, input)
               [] S.op = "spaced" -> spacedStep(S, st, now, input)
               [] S.op = "fixed" -> fixedStep(S, st, now, input)
               [] S.op = "windowed" -> windowedStep(S, st, now, input)
               [] S.op = "exponential" -> exponentialStep(S, st, now, input)
               [] S.op = "fibonacci" -> fibonacciStep(S, st)
               [] S.op = "elapsed" -> elapsedStep(S, st, now, input)
               [] S.op = "duration" -> durationStep(S, st, now, input)
               [] S.op = "identity" -> identityStep(S, st, input)
               [] S.op = "unfold" -> unfoldStep(S, st, p)
               [] S.op = "while" -> whileStep(S, st, p, now, input, rnd)
               [] S.op = "map" -> mapStep(S, st, p, now, input, rnd)
               [] S.op = "modifyDelay" -> modifyDelayStep(S, st, p, now, input, rnd)
               [] S.op = "reduce" -> reduceStep(S, st, p, now, input, rnd)
               [] S.op = "passthrough" -> passthroughStep(S, st, p, now, input, rnd)
               [] S.op = "delays" -> delaysStep(S, st, p, now, input, rnd)
               [] S.op = "tapInput" -> tapInputStep(S, st, p, now, input, rnd)
               [] S.op = "tapOutput" -> tapOutputStep(S, st, p, now, input, rnd)
               [] S.op = "bothWith" -> bothWithStep(S, st, p, now, input, rnd)
               [] S.op = "eitherWith" -> eitherWithStep(S, st, p, now, input, rnd)
               [] S.op = "andThenResult" -> andThenResultStep(S, st, p, now, input, rnd)
    IN [r EXCEPT !.ev = r.ev \o <<Stepped(p, now, input, r.res)>>]

---------------------------------------------------------------------------
(* The schedules the model drives. *)

Times == 0..MaxTimes

FailingStep == unfold(Num(0), [fn |-> "failsAt", n |-> 1])
Counter == unfold(Num(0), [fn |-> "inc"])

(* Sides of the binary combinators: different outputs, delays and lifetimes. *)
Sides == << recurs(0), take(spaced(1), 1), take(spaced(2), 2),
            take(exponential(1, 2), 2), duration(3), FailingStep >>

Combines == {"tuple", "left", "right"}

(* Unary combinators over a step that ends by Done (take) or by failing,
   with user functions that succeed and user functions that fail. *)
Inners == << take(Counter, 2), FailingStep >>

Unaries(X) ==
    << map(X, [fn |-> "inc"]),
       map(X, [fn |-> "incEffect"]),
       map(X, [fn |-> "failsAt", n |-> 1]),
       addDelay(X, 5),
       modifyDelay(X, [fn |-> "failsAt", n |-> 1]),
       jittered(addDelay(X, 100)),
       while_(X, [fn |-> "failsAt", n |-> 2]),
       while_(X, [fn |-> "retryable"]),
       take(X, 1),
       reduce(X, Num(0), [fn |-> "sum"]),
       reduce(X, Num(0), [fn |-> "sumEffect"]),
       reduce(X, Num(0), [fn |-> "failsAt", n |-> 1]),
       collectWhile(X, [fn |-> "failsAt", n |-> 2]),
       collectOutputs(X),
       collectInputs(X),
       tapInput(X, [fn |-> "failsOnInput"]),
       tapInput(X, [fn |-> "log"]),
       tapOutput(X, [fn |-> "failsAt", n |-> 1]),
       tapOutput(X, [fn |-> "log"]),
       passthrough(X),
       delays(X) >>

(* Schedules driven by two drivers at once: every kind of closure state. *)
Shared == << andThen(recurs(1), fibonacci(1)),
             collectOutputs(take(Counter, 2)),
             reduce(take(spaced(1), 2), Num(0), [fn |-> "sumEffect"]),
             both(take(exponential(1, 2), 2), during(1)),
             either(duration(1), recurs(2)) >>

RECURSIVE usesRandom(_)
usesRandom(S) ==
    CASE S.op = "modifyDelay" -> S.f.fn = "jitter" \/ usesRandom(S.self)
      [] S.op \in {"while", "map", "reduce", "passthrough", "delays", "tapInput", "tapOutput"} ->
            usesRandom(S.self)
      [] S.op \in {"bothWith", "eitherWith", "andThenResult"} ->
            usesRandom(S.self) \/ usesRandom(S.other)
      [] OTHER -> FALSE

Draws(S) == IF usesRandom(S) THEN 0..(RandomDen - 1) ELSE {0}

---------------------------------------------------------------------------
(* The state machine: extraction of drivers and calls of their step functions. *)

NoCall == [now |-> 0, input |-> Nil, rnd |-> 0, res |-> [tag |-> "None"], ev |-> <<>>,
           alone |-> [tag |-> "None"], prev |-> [tag |-> "None"], prevNow |-> 0]

(* The sleeping driver before its extraction. *)
NoSleeper == [extracted |-> FALSE, withMetadata |-> FALSE, step |-> Nil, metaFn |-> metadataFn,
              sleeping |-> FALSE, until |-> 0, calls |-> 0, conts |-> 0, now |-> 0,
              input |-> Nil,
              res |-> [tag |-> "None"], meta |-> Nil, returned |-> [tag |-> "None"]]

InitState ==
    /\ sleeper = NoSleeper
    /\ stepFn = [d \in DriverIds |-> [extracted |-> FALSE, cell |-> 0]]
    /\ cells = [c \in DriverIds |-> Nil]
    /\ solo = [d \in DriverIds |-> Nil]
    /\ clock = 0
    /\ calls = [d \in DriverIds |-> 0]
    /\ conts = [d \in DriverIds |-> 0]
    /\ last = [d \in DriverIds |-> NoCall]

Init ==
    /\ drivers = {1}
    /\ \/ \E n \in Times : sched = recurs(n)
       \/ \E m \in Times, n \in Times : sched = both(recurs(m), recurs(n))
       \/ \E m \in Times, n \in Times : sched = either(recurs(m), recurs(n))
       \/ \E m \in Times, n \in Times : sched = andThen(recurs(m), recurs(n))
       \/ \E n \in Times : sched = collectOutputs(recurs(n))
       \/ \E n \in Times, c \in {"sum", "sumEffect"} :
             sched = reduce(recurs(n), Num(0), [fn |-> c])
       \/ \E i \in DOMAIN Sides, j \in DOMAIN Sides, c \in Combines :
             sched = bothWith(Sides[i], Sides[j], [fn |-> c])
       \/ \E i \in DOMAIN Sides, j \in DOMAIN Sides :
             sched = either(Sides[i], Sides[j])
       \/ \E i \in DOMAIN Sides, j \in DOMAIN Sides :
             sched = andThenResult(Sides[i], Sides[j])
       \/ \E j \in DOMAIN Inners : \E i \in DOMAIN Unaries(Inners[j]) :
             sched = Unaries(Inners[j])[i]
    /\ InitState

InitPair ==
    /\ drivers = {1, 2}
    /\ \E i \in DOMAIN Shared : sched = Shared[i]
    /\ InitState

(* The metadata tracker observed through step functions that expose it. *)
Echo == fromStepWithMetadata([fn |-> "echo"])

(* Second schedules of andThen whose results show their attempt and start. *)
Seconds == << exponential(1, 2), Echo >>

(* Sides that are Done on an input that is not retryable and continue again
   on a later input that is. *)
Revived == << while_(spaced(1), [fn |-> "retryable"]),
              while_(exponential(1, 2), [fn |-> "retryable"]) >>

(* Left sides whose step fails, on an input that is not retryable or from the
   second step on, and right sides whose closure shows in their results. *)
Flaky == << tapInput(spaced(1), [fn |-> "failsOnInput"]), FailingStep >>
Stateful == << exponential(1, 2), Counter, collectOutputs(spaced(2)), take(spaced(2), 2) >>

(* First schedules of andThen whose step fails on an input that is not
   retryable and goes on, or is Done, on the next one that is. *)
Firsts == << tapInput(spaced(1), [fn |-> "failsOnInput"]),
             take(tapInput(spaced(1), [fn |-> "failsOnInput"]), 1),
             FailingStep >>

(* Binary combinators over every pair of sides and every combine. *)
InitBinary ==
    /\ drivers = {1}
    /\ \/ \E i \in DOMAIN Sides, j \in DOMAIN Sides, c \in Combines :
             sched = eitherWith(Sides[i], Sides[j], [fn |-> c])
       \/ \E i \in DOMAIN Revived, j \in DOMAIN Sides :
             sched \in {either(Revived[i], Sides[j]), either(Sides[j], Revived[i])}
       \/ \E i \in DOMAIN Flaky, j \in DOMAIN Stateful :
             sched \in {both(Flaky[i], Stateful[j]), either(Flaky[i], Stateful[j])}
       \/ \E n \in Times, j \in DOMAIN Seconds : sched = andThen(recurs(n), Seconds[j])
       \/ \E i \in DOMAIN Firsts, j \in DOMAIN Seconds :
             sched \in {andThen(Firsts[i], Seconds[j]), andThenResult(Firsts[i], Seconds[j])}
       \/ \E i \in DOMAIN Sides, j \in DOMAIN Sides :
             sched = compose(Sides[i], Sides[j])
       \/ \E i \in DOMAIN Sides, j \in DOMAIN Sides :
             sched = andThenResult(Sides[i], Sides[j])
       \/ \E i \in DOMAIN Sides, j \in DOMAIN Sides :
             sched = andThen(Sides[i], Sides[j])
    /\ InitState

(* Time-driven constructors, driven alone while the clock advances. *)
Intervals == 0..MaxInterval
Timed(S) ==
    \/ S.op \in {"spaced", "fixed", "windowed", "exponential"}
    \/ S.op = "bothWith" /\ S.self.op = "fixed" /\ S.other.op = "windowed"

InitTimed ==
    /\ drivers = {1}
    /\ \/ \E d \in Intervals : sched = spaced(d)
       \/ sched = forever
       \/ \E d \in Intervals : sched = fixed(d)
       \/ \E d \in Intervals : sched = windowed(d)
       \/ \E d \in Intervals : sched = both(fixed(d), windowed(d))
       \/ \E b \in {1, 100}, f \in 1..3 : sched = exponential(b, f)
       \/ \E n \in Times : sched = take(exponential(100, 2), n)
       \/ \E d \in {0, 100} : sched = jittered(spaced(d))
       \/ \E n \in Times : sched = jittered(take(spaced(100), n))
       \/ sched = jittered(exponential(100, 2))
    /\ InitState

(* Cron expressions: every time unit, every second one, and one that does not parse. *)
CronExpressions ==
    << [text |-> "* * * * *", wellFormed |-> TRUE, every |-> 1],
       [text |-> "*/2 * * * *", wellFormed |-> TRUE, every |-> 2],
       [text |-> "invalid", wellFormed |-> FALSE, every |-> 0] >>

(* Constructors that stop, read the clock, echo their input or may fail to
   build, driven alone. *)
InitConstructors ==
    /\ drivers = {1}
    /\ \/ \E one \in {1, 100} : sched = fibonacci(one)
       \/ \E d \in Intervals : sched = duration(d)
       \/ \E d \in Intervals : sched = during(d)
       \/ sched = elapsed
       \/ sched = identity
       \/ \E i \in DOMAIN CronExpressions : sched = cron(CronExpressions[i])
       \/ \E i \in DOMAIN CronExpressions, n \in Times : sched = take(cron(CronExpressions[i]), n)
    /\ InitState

(* Unary combinators over schedules that go on for ever, stop, fail, or stop
   and go on again with the input. *)
Bases == << spaced(1), exponential(1, 2), Counter, recurs(2), duration(1), FailingStep,
            while_(spaced(2), [fn |-> "retryable"]) >>

Predicates == << [fn |-> "retryable"], [fn |-> "attemptLE", n |-> 2],
                 [fn |-> "failsAt", n |-> 2], [fn |-> "true"] >>

Taps == << [fn |-> "log"], [fn |-> "failsOnInput"] >>

InitUnary ==
    /\ drivers = {1}
    /\ \/ \E i \in DOMAIN Bases, j \in DOMAIN Predicates : sched = while_(Bases[i], Predicates[j])
       \/ \E i \in DOMAIN Bases, n \in Times : sched = take(Bases[i], n)
       \/ \E i \in DOMAIN Bases : sched = passthrough(Bases[i])
       \/ \E i \in DOMAIN Bases, j \in DOMAIN Taps : sched = tapInput(Bases[i], Taps[j])
       \/ \E i \in DOMAIN Bases : sched = tapOutput(Bases[i], [fn |-> "log"])
       \/ sched = identity
    /\ InitState

InitRaw ==
    /\ drivers = {1}
    /\ \/ sched = Echo
       \/ sched = elapsed
       \/ \E d \in Intervals : sched = spaced(d)
    /\ InitState

(* Every built-in constructor, alone and under every combinator. *)
Primitives == << spaced(1), fixed(2), windowed(2), exponential(1, 2), fibonacci(1),
                 elapsed, duration(1), Counter, identity >>

InitDelays ==
    /\ drivers = {1}
    /\ \/ \E i \in DOMAIN Primitives : sched = Primitives[i]
       \/ \E i \in DOMAIN Primitives, n \in Times : sched = take(Primitives[i], n)
       \/ \E i \in DOMAIN Primitives : sched = while_(Primitives[i], [fn |-> "retryable"])
       \/ \E i \in DOMAIN Primitives : sched = collectOutputs(Primitives[i])
       \/ \E i \in DOMAIN Primitives : sched = jittered(Primitives[i])
       \/ \E i \in DOMAIN Primitives, d \in 0..MaxNow : sched = addDelay(Primitives[i], d)
       \/ \E i \in DOMAIN Primitives, j \in DOMAIN Primitives :
             sched = both(Primitives[i], Primitives[j])
       \/ \E i \in DOMAIN Primitives, j \in DOMAIN Primitives :
             sched = either(Primitives[i], Primitives[j])
       \/ \E i \in DOMAIN Primitives, j \in DOMAIN Primitives :
             sched = andThen(Primitives[i], Primitives[j])
    /\ InitState

(* The schedules of the documented examples. *)
retryBackoffWithLimit == both(exponential(250, 2), recurs(6))
keepTryingUntilBothStop == either(spaced(2000), recurs(3))
retryableOnly == while_(exponential(200, 2), [fn |-> "retryable"])
instrumentedRetrySchedule ==
    tapOutput(tapInput(retryableOnly, [fn |-> "log"]), [fn |-> "log"])
productionRetrySchedule ==
    while_(jittered(either(exponential(250, 2), spaced(10000))), [fn |-> "retryable"])

InitExamples ==
    /\ drivers = {1}
    /\ sched \in {retryBackoffWithLimit, keepTryingUntilBothStop, retryableOnly,
                  instrumentedRetrySchedule, productionRetrySchedule}
    /\ InitState

(* Schedules driven through the sleeping driver: delays of several lengths,
   schedules that stop, fail, or stop and go on again with the input. *)
InitSleep ==
    /\ drivers = {}
    /\ \/ \E d \in Intervals : sched = spaced(d)
       \/ \E d \in Intervals : sched = fixed(d)
       \/ sched = exponential(1, 2)
       \/ \E d \in 1..2, n \in Times : sched = take(spaced(d), n)
       \/ sched = while_(spaced(1), [fn |-> "retryable"])
       \/ sched = FailingStep
       \/ sched = cron(CronExpressions[3])
    /\ InitState

CallBound == IF drivers = {1} THEN MaxCalls ELSE MaxPairCalls
ClockBound == IF Timed(sched) \/ sleeper.extracted THEN MaxLateNow ELSE MaxNow

(* An extraction that hands out the closure allocated by the first one. *)
toStepMemo(S, d) == [cell |-> 1, st |-> catchCause(factory(S))]

(* toStep(schedule): running the schedule's step factory for extraction d
   allocates a fresh closure cell holding fresh closure variables. *)
toStep(S, d) == [cell |-> d, st |-> catchCause(factory(S))]

ToStep(d) ==
    /\ d \in drivers
    /\ ~stepFn[d].extracted
    /\ LET x == toStep(sched, d)
       IN /\ stepFn' = [stepFn EXCEPT ![d] = [extracted |-> TRUE, cell |-> x.cell]]
          /\ cells' = [cells EXCEPT ![x.cell] = x.st]
    /\ solo' = [solo EXCEPT ![d] = catchCause(factory(sched))]
    /\ UNCHANGED <<sched, drivers, clock, calls, conts, last, sleeper>>

(* One call step(now, input) of driver d's step function. *)
CallWith(d, now, input, rnd) ==
    /\ d \in drivers
    /\ stepFn[d].extracted
    /\ calls[d] < CallBound
    /\ LET c == stepFn[d].cell
           r == Step(sched, cells[c], <<>>, now, input, rnd)
           a == Step(sched, solo[d], <<>>, now, input, rnd)
       IN /\ cells' = [cells EXCEPT ![c] = r.st]
          /\ solo' = [solo EXCEPT ![d] = a.st]
          /\ calls' = [calls EXCEPT ![d] = @ + 1]
          /\ conts' = [conts EXCEPT ![d] = IF r.res.tag = "Continue" THEN @ + 1 ELSE @]
          /\ last' = [last EXCEPT ![d] =
                        [now |-> now, input |-> input, rnd |-> rnd, res |-> r.res,
                         ev |-> r.ev, alone |-> a.res, prev |-> last[d].res,
                         prevNow |-> last[d].now]]
    /\ UNCHANGED <<sched, drivers, stepFn, clock, sleeper>>

(* A call whose now is read from the clock when the call is made. *)
Call(d, input, rnd) == CallWith(d, clock, input, rnd)

(* A call of the raw step function with a now of the caller's choosing. *)
CallAt(d, now, input) == CallWith(d, now, input, 0)

Tick ==
    /\ clock < ClockBound
    /\ clock' = clock + 1
    /\ UNCHANGED <<sched, drivers, stepFn, cells, solo, calls, conts, last, sleeper>>

Next ==
    \/ \E d \in DriverIds : ToStep(d)
    \/ \E d \in DriverIds, input \in Inputs, rnd \in Draws(sched) : Call(d, input, rnd)
    \/ Tick

(* toStepWithMetadata(schedule): toStep plus a metadata tracker of the driver's own. *)
ToStepWithMetadata ==
    /\ ~sleeper.extracted
    /\ sleeper' = [sleeper EXCEPT !.extracted = TRUE, !.withMetadata = TRUE,
                                  !.step = catchCause(factory(sched)), !.metaFn = metadataFn]
    /\ UNCHANGED <<sched, drivers, stepFn, cells, solo, clock, calls, conts, last>>

(* toStepWithSleep(schedule): toStepWithMetadata whose calls return meta.output. *)
ToStepWithSleep ==
    /\ ~sleeper.extracted
    /\ sleeper' = [sleeper EXCEPT !.extracted = TRUE, !.withMetadata = FALSE,
                                  !.step = catchCause(factory(sched)), !.metaFn = metadataFn]
    /\ UNCHANGED <<sched, drivers, stepFn, cells, solo, clock, calls, conts, last>>

(* A sleep that ends at once. *)
sleepSkipped(now, delay) == now

(* effect.sleep(duration) started at now: the time at which the fiber resumes. *)
sleepUntil(now, delay) == now + delay

(* A call of the sleeping driver that runs the tracker whatever the step returns. *)
CallSleepingTracksAll(input, rnd) ==
    /\ sleeper.extracted
    /\ ~sleeper.sleeping
    /\ sleeper.calls < MaxCalls
    /\ LET now == clock
           r == Step(sched, sleeper.step, <<>>, now, input, rnd)
           m == meta(sleeper.metaFn, now, input)
           called == [sleeper EXCEPT !.calls = @ + 1, !.now = now, !.input = input,
                                     !.step = r.st, !.res = r.res, !.metaFn = m.st]
       IN sleeper' =
             IF r.res.tag = "Continue"
             THEN [called EXCEPT !.conts = @ + 1,
                                 !.meta = m.md @@ [output |-> r.res.out, duration |-> r.res.delay],
                                 !.sleeping = TRUE,
                                 !.until = sleepUntil(now, r.res.delay)]
             ELSE [called EXCEPT !.returned = r.res]
    /\ UNCHANGED <<sched, drivers, stepFn, cells, solo, clock, calls, conts, last>>

(* A call of the sleeping driver up to its sleep: it reads the clock, steps
   the schedule and, when the step continues, runs the tracker with that now
   and starts sleeping; a Done or a failure is returned at once. *)
CallSleeping(input, rnd) ==
    /\ sleeper.extracted
    /\ ~sleeper.sleeping
    /\ sleeper.calls < MaxCalls
    /\ LET now == clock
           r == Step(sched, sleeper.step, <<>>, now, input, rnd)
           m == meta(sleeper.metaFn, now, input)
           called == [sleeper EXCEPT !.calls = @ + 1, !.now = now, !.input = input,
                                     !.step = r.st, !.res = r.res]
       IN sleeper' =
             IF r.res.tag = "Continue"
             THEN [called EXCEPT !.metaFn = m.st, !.conts = @ + 1,
                                 !.meta = m.md @@ [output |-> r.res.out, duration |-> r.res.delay],
                                 !.sleeping = TRUE,
                                 !.until = sleepUntil(now, r.res.delay)]
             ELSE [called EXCEPT !.returned = r.res]
    /\ UNCHANGED <<sched, drivers, stepFn, cells, solo, clock, calls, conts, last>>

(* The sleep is over: the call returns the metadata, or its output. *)
Wake ==
    /\ sleeper.sleeping
    /\ clock >= sleeper.until
    /\ sleeper' = [sleeper EXCEPT !.sleeping = FALSE,
                                  !.returned = [tag |-> "Returned",
                                                value |-> IF sleeper.withMetadata
                                                          THEN sleeper.meta
                                                          ELSE sleeper.meta.output]]
    /\ UNCHANGED <<sched, drivers, stepFn, cells, solo, clock, calls, conts, last>>

NextSleep ==
    \/ ToStepWithMetadata
    \/ ToStepWithSleep
    \/ \E input \in Inputs, rnd \in Draws(sched) : CallSleeping(input, rnd)
    \/ Wake
    \/ Tick

NextRaw ==
    \/ \E d \in DriverIds : ToStep(d)
    \/ \E d \in DriverIds, now \in 0..MaxNow, input \in Inputs : CallAt(d, now, input)
    \/ Tick

Spec == Init /\ [][Next]_vars
SpecRaw == InitRaw /\ [][NextRaw]_vars
SpecSleep == InitSleep /\ [][NextSleep]_vars
SpecExamples == InitExamples /\ [][Next]_vars
SpecDelays == InitDelays /\ [][Next]_vars
SpecPair == InitPair /\ [][Next]_vars
SpecBinary == InitBinary /\ [][Next]_vars
SpecTimed == InitTimed /\ [][Next]_vars
SpecConstructors == InitConstructors /\ [][Next]_vars
SpecUnary == InitUnary /\ [][Next]_vars

---------------------------------------------------------------------------
(* Reading the trace of a call. *)

Called(d) == d \in drivers /\ calls[d] > 0

FailedHooks(ev) == {i \in DOMAIN ev : ev[i].e = "hook" /\ ~ev[i].ok}
StepsAt(ev, p) == {i \in DOMAIN ev : ev[i].e = "step" /\ ev[i].at = p}
ResultAt(ev, p) == ev[CHOOSE i \in StepsAt(ev, p) : TRUE].res

---------------------------------------------------------------------------
(* C1: two drivers extracted from the same Schedule value do not interfere:
   under every interleaving of their calls, each call of a driver returns what
   a driver stepped alone with the same (now, input) sequence returns. *)
DriverIndependence ==
    \A d \in drivers : Called(d) => last[d].res = last[d].alone

DriverIndependenceWitness ==
    /\ drivers = {1, 2}
    /\ calls[1] = 2 /\ calls[2] = 1
    /\ last[1].res # last[2].res
    /\ cells[stepFn[1].cell] # cells[stepFn[2].cell]

(* C2: a failure is never turned into Continue or Done, a Done is never turned
   into a failure, and nothing is stepped again after a failure: a call fails
   exactly when a step or user effect inside it failed, with that cause, every
   step function returning after the failure returns that failure, and no step
   function runs twice in one call. *)
FailureNotConflated ==
    \A d \in drivers : Called(d) =>
        LET ev == last[d].ev
            res == last[d].res
        IN /\ (res.tag = "Fail") <=> (FailedHooks(ev) # {})
           /\ \A i \in FailedHooks(ev) :
                /\ res = Failure(ev[i].cause)
                /\ \A j \in DOMAIN ev :
                      j > i => ev[j].e = "step" /\ ev[j].res = Failure(ev[i].cause)
           /\ \A i \in DOMAIN ev, j \in DOMAIN ev :
                (ev[i].e = "step" /\ ev[j].e = "step" /\ ev[i].at = ev[j].at) => i = j

FailureNotConflatedWitness ==
    /\ Called(1)
    /\ sched.op = "bothWith"
    /\ last[1].res.tag = "Fail"
    /\ StepsAt(last[1].ev, <<1>>) # {} /\ StepsAt(last[1].ev, <<2>>) # {}
    /\ ResultAt(last[1].ev, <<1>>).tag = "Done"
    /\ ResultAt(last[1].ev, <<2>>) = last[1].res

(* C3 as stated: recurs(n) continues with outputs 0..n-1 on steps 1..n and step
   n+1 returns Done carrying n-1, the last continuing output. *)
RecursDoneCarriesLastOutput ==
    \A n \in Times :
        (sched = recurs(n) /\ n >= 1 /\ Called(1)) =>
            /\ calls[1] <= n => last[1].res = Continue(Num(calls[1] - 1), 0)
            /\ calls[1] = n + 1 => last[1].res = Done(Num(n - 1))

(* C3 amended: recurs(n) continues with outputs 0..n-1 (zero delay) on steps
   1..n, and every later step k returns Done carrying k-1, the output of that
   step of the underlying counter: step n+1 returns Done(n). *)
RecursOutputs ==
    \A n \in Times :
        (sched = recurs(n) /\ Called(1)) =>
            /\ calls[1] <= n => last[1].res = Continue(Num(calls[1] - 1), 0)
            /\ calls[1] > n => last[1].res = Done(Num(calls[1] - 1))

RecursOutputsWitness ==
    /\ sched = recurs(3)
    /\ calls[1] = 4
    /\ conts[1] = 3
    /\ last[1].res = Done(Num(3))
    /\ last[1].prev = Continue(Num(2), 0)

(* C4: both(recurs(m), recurs(n)) returns Continue on exactly min(m, n) calls,
   the first min(m, n) ones, and Done on the next call. *)
BothRecursCount ==
    \A m \in Times, n \in Times :
        (sched = both(recurs(m), recurs(n)) /\ Called(1)) =>
            /\ calls[1] <= Min(m, n) => last[1].res.tag = "Continue"
            /\ calls[1] > Min(m, n) => last[1].res.tag = "Done"
            /\ conts[1] = Min(calls[1], Min(m, n))

BothRecursCountWitness ==
    /\ sched = both(recurs(2), recurs(4))
    /\ calls[1] = 3
    /\ conts[1] = 2
    /\ last[1].res.tag = "Done"

(* C5: either(recurs(m), recurs(n)) returns Continue on exactly max(m, n)
   calls, the first max(m, n) ones, and Done on the next call. *)
EitherRecursCount ==
    \A m \in Times, n \in Times :
        (sched = either(recurs(m), recurs(n)) /\ Called(1)) =>
            /\ calls[1] <= Max(m, n) => last[1].res.tag = "Continue"
            /\ calls[1] > Max(m, n) => last[1].res.tag = "Done"
            /\ conts[1] = Min(calls[1], Max(m, n))

EitherRecursCountWitness ==
    /\ sched = either(recurs(2), recurs(4))
    /\ calls[1] = 5
    /\ conts[1] = 4
    /\ last[1].res.tag = "Done"

(* C6: andThen(recurs(m), recurs(n)) returns Continue on exactly m + n calls
   and then Done; the outputs are those of the first schedule on calls 1..m and
   those of the second afterwards, with no output for the first schedule's
   Done: on call m+1 the first schedule is stepped and signals Done, the second
   is stepped in the same call with the same (now, input), and its result is
   what the call returns. *)
AndThenRecursCount ==
    \A m \in Times, n \in Times :
        (sched = andThen(recurs(m), recurs(n)) /\ Called(1)) =>
            LET k == calls[1]
                ev == last[1].ev
                res == last[1].res
            IN /\ k <= m => res = Continue(Num(k - 1), 0) /\ StepsAt(ev, <<1, 2, 1>>) = {}
               /\ (m < k /\ k <= m + n) => res = Continue(Num(k - m - 1), 0)
               /\ k > m + n => res = Done(Num(k - m - 1))
               /\ conts[1] = Min(k, m + n)
               /\ k = m + 1 =>
                    \E i \in StepsAt(ev, <<1, 1, 1>>), j \in StepsAt(ev, <<1, 2, 1>>) :
                        /\ i < j
                        /\ ev[i].res.tag = "Done"
                        /\ ev[j].now = last[1].now /\ ev[j].input = last[1].input
                        /\ ev[j].res = res
                        /\ Cardinality(StepsAt(ev, <<1, 2, 1>>)) = 1

AndThenRecursCountWitness ==
    /\ sched = andThen(recurs(2), recurs(3))
    /\ calls[1] = 6
    /\ conts[1] = 5
    /\ last[1].res.tag = "Done"
    /\ last[1].prev = Continue(Num(2), 0)

(* The outputs 0, 1, ..., k-1 in order. *)
Counted(k) == Arr([i \in 1..k |-> Num(i - 1)])

(* C7 as stated: the state collectOutputs(recurs(n)) emits when it terminates
   is [0, 1, ..., n-1], the continuing outputs and nothing else. *)
CollectOutputsOnlyContinuing ==
    \A n \in Times :
        (sched = collectOutputs(recurs(n)) /\ Called(1) /\ calls[1] = n + 1) =>
            last[1].res = Done(Counted(n))

(* C7 amended: collectOutputs(recurs(n)) emits [0, ..., k-1] on call k <= n and
   terminates on call n+1 with the continuing outputs followed by the output
   carried by the Done of recurs(n): [0, 1, ..., n-1, n]. *)
CollectOutputsWithTerminal ==
    \A n \in Times :
        (sched = collectOutputs(recurs(n)) /\ Called(1)) =>
            /\ calls[1] <= n => last[1].res = Continue(Counted(calls[1]), 0)
            /\ calls[1] = n + 1 => last[1].res = Done(Counted(n + 1))

CollectOutputsWithTerminalWitness ==
    /\ sched = collectOutputs(recurs(3))
    /\ calls[1] = 4
    /\ last[1].res = Done(Arr(<<Num(0), Num(1), Num(2), Num(3)>>))

(* C8: reduce(S, initial, combine) folds: the state emitted on a call is
   combine(state emitted on the previous call, or initial on the first call,
   S's output on this call), for Continue and for the terminal Done, for plain
   and effectful combine; delay and Continue/Done status are those of S. *)
ReduceFolds ==
    \A d \in drivers :
        (/\ Called(d)
         /\ sched.op = "reduce"
         /\ last[d].res.tag \in {"Continue", "Done"}
         /\ last[d].prev.tag \in {"None", "Continue"}) =>
            LET inner == ResultAt(last[d].ev, <<1>>)
                before == IF last[d].prev.tag = "None" THEN sched.initial
                          ELSE last[d].prev.out
                folded == reduceCombine(sched.combine, before, inner.out).val
            IN last[d].res = IF inner.tag = "Continue" THEN Continue(folded, inner.delay)
                             ELSE Done(folded)

(* C9: on every call where both sides of bothWith(A, B, combine) return
   Continue, the call returns Continue(combine(outputA, outputB),
   max(delayA, delayB)); both pairs the outputs. *)
BothWithContinues ==
    \A d \in drivers :
        (/\ Called(d)
         /\ sched.op = "bothWith"
         /\ StepsAt(last[d].ev, <<1>>) # {} /\ StepsAt(last[d].ev, <<2>>) # {}
         /\ ResultAt(last[d].ev, <<1>>).tag = "Continue"
         /\ ResultAt(last[d].ev, <<2>>).tag = "Continue") =>
            LET l == ResultAt(last[d].ev, <<1>>)
                r == ResultAt(last[d].ev, <<2>>)
                res == last[d].res
            IN /\ res.tag = "Continue"
               /\ res.delay = IF l.delay >= r.delay THEN l.delay ELSE r.delay
               /\ sched.combine.fn = "tuple" => res.out = Pair(l.out, r.out)
               /\ sched.combine.fn = "left" => res.out = l.out
               /\ sched.combine.fn = "right" => res.out = r.out

BothWithContinuesWitness ==
    /\ Called(1)
    /\ sched = both(take(spaced(1), 1), take(exponential(1, 2), 2))
    /\ last[1].res = Continue(Pair(Num(0), Dur(1)), 1)

(* C10: on the first call where a side of bothWith returns Done, both sides
   are stepped exactly once and the call returns Done(combine(outputA,
   outputB)) of the two outputs of that call. *)
BothWithDone ==
    \A d \in drivers :
        (/\ Called(d)
         /\ sched.op = "bothWith"
         /\ last[d].prev.tag \in {"None", "Continue"}
         /\ StepsAt(last[d].ev, <<1>>) # {} /\ StepsAt(last[d].ev, <<2>>) # {}
         /\ ResultAt(last[d].ev, <<1>>).tag # "Fail"
         /\ ResultAt(last[d].ev, <<2>>).tag # "Fail"
         /\ "Done" \in {ResultAt(last[d].ev, <<1>>).tag, ResultAt(last[d].ev, <<2>>).tag}) =>
            /\ Cardinality(StepsAt(last[d].ev, <<1>>)) = 1
            /\ Cardinality(StepsAt(last[d].ev, <<2>>)) = 1
            /\ last[d].res = Done(combine(sched.combine,
                                          ResultAt(last[d].ev, <<1>>).out,
                                          ResultAt(last[d].ev, <<2>>).out))

(* C11: eitherWith continues whenever at least one side continues, with the
   smaller delay when both continue and the delay of the continuing side
   otherwise, its output being combine(outputA, outputB); it is Done, with
   combine(outputA, outputB), only on a call where both sides are Done. *)
EitherWithUnion ==
    (sched.op = "eitherWith" /\ Called(1)) =>
        LET ev == last[1].ev
            res == last[1].res
            l == ResultAt(ev, <<1>>)
            r == ResultAt(ev, <<2>>)
        IN (l.tag # "Fail" /\ StepsAt(ev, <<2>>) # {} /\ r.tag # "Fail") =>
              LET out == combine(sched.combine, l.out, r.out)
              IN CASE l.tag = "Continue" /\ r.tag = "Continue" ->
                        res = Continue(out, Min(l.delay, r.delay))
                   [] l.tag = "Continue" /\ r.tag = "Done" -> res = Continue(out, l.delay)
                   [] l.tag = "Done" /\ r.tag = "Continue" -> res = Continue(out, r.delay)
                   [] l.tag = "Done" /\ r.tag = "Done" -> res = Done(out)

EitherWithUnionWitness ==
    /\ sched.op = "eitherWith" /\ sched.combine.fn = "tuple" /\ calls[1] = 2
    /\ ResultAt(last[1].ev, <<1>>).tag = "Done"
    /\ ResultAt(last[1].ev, <<2>>).tag = "Continue"
    /\ last[1].res.tag = "Continue"
    /\ last[1].prev.tag = "Continue" /\ last[1].prev.delay = 1

---------------------------------------------------------------------------
(* Where the two phases of andThenResult / andThen sit in the trace. *)

IsAndThen ==
    \/ sched.op = "andThenResult"
    \/ sched.op = "map" /\ sched.self.op = "andThenResult"

AndThenAt == IF sched.op = "andThenResult" THEN <<>> ELSE <<1>>
LeftAt == AndThenAt \o <<1>>
RightAt == AndThenAt \o <<2>>

(* C12: andThen / andThenResult never switch back: once a call has seen the
   first schedule return Done (the second schedule is stepped from that call
   on), every later call of the driver steps the second schedule and never
   the first, whatever the second returns and whatever the inputs are. *)
NeverSwitchesBack ==
    [][(/\ IsAndThen
        /\ calls[1] > 0
        /\ calls'[1] > calls[1]
        /\ StepsAt(last[1].ev, RightAt) # {})
       => (/\ StepsAt(last'[1].ev, LeftAt) = {}
           /\ StepsAt(last'[1].ev, RightAt) # {})]_vars

NeverSwitchesBackWitness ==
    /\ IsAndThen /\ calls[1] >= 3
    /\ last[1].prev.tag = "Done"
    /\ last[1].input # Nil
    /\ StepsAt(last[1].ev, LeftAt) = {}
    /\ StepsAt(last[1].ev, RightAt) # {}

(* C13: andThenResult tags each output by phase: an output of the left
   schedule (self) is emitted as the failure case of the Result and an output
   of the right schedule (other) as its success case, for Continue and Done. *)
AndThenResultTagsByPhase ==
    (sched.op = "andThenResult" /\ Called(1) /\ last[1].res.tag # "Fail") =>
        IF StepsAt(last[1].ev, RightAt) = {}
        THEN last[1].res.out = ResultFail(ResultAt(last[1].ev, LeftAt \o <<1>>).out)
        ELSE last[1].res.out = ResultSucceed(ResultAt(last[1].ev, RightAt \o <<1>>).out)

---------------------------------------------------------------------------
IsCompose == \E i \in DOMAIN Sides, j \in DOMAIN Sides : sched = compose(Sides[i], Sides[j])

(* Both sides were stepped, once each, with the call's own (now, input). *)
SteppedBothSides(c) ==
    \A p \in {<<1>>, <<2>>} :
        /\ Cardinality(StepsAt(c.ev, p)) = 1
        /\ \A i \in StepsAt(c.ev, p) : c.ev[i].now = c.now /\ c.ev[i].input = c.input

(* C14: compose(A, B) is the intersection both(A, B): every call steps A and
   B with the call's (now, input) and returns what both returns for the two
   results, the pair [outputA, outputB] with delay max(delayA, delayB) while
   both continue and Done on the first call where either side is Done. *)
ComposeIsBoth ==
    (IsCompose /\ Called(1)) =>
        LET c == last[1]
            l == ResultAt(c.ev, <<1>>)
        IN /\ StepsAt(c.ev, <<1>>) # {}
           /\ l.tag # "Fail" =>
                LET r == ResultAt(c.ev, <<2>>)
                IN /\ SteppedBothSides(c)
                   /\ c.res = bothWithResult([fn |-> "tuple"], l, r)
                   /\ (l.tag = "Continue" /\ r.tag = "Continue") =>
                         c.res = Continue(Pair(l.out, r.out), Max(l.delay, r.delay))
                   /\ (r.tag # "Fail" /\ "Done" \in {l.tag, r.tag}) => c.res.tag = "Done"

ComposeIsBothWitness ==
    /\ IsCompose /\ calls[1] = 2
    /\ last[1].prev.tag = "Continue" /\ last[1].prev.out.k = "tuple"
    /\ last[1].res.tag = "Done"
    /\ ResultAt(last[1].ev, <<1>>).tag = "Continue"
    /\ ResultAt(last[1].ev, <<2>>).tag = "Done"

(* C15: compose(self, other) runs the two schedules one after the other:
   other is not stepped on a call where self is stepped and still continues. *)
ComposeIsSequential ==
    (IsCompose /\ Called(1)) =>
        \A i \in StepsAt(last[1].ev, <<1>>) :
            last[1].ev[i].res.tag = "Continue" => StepsAt(last[1].ev, <<2>>) = {}

---------------------------------------------------------------------------
(* C16: exponential(base, factor) never stops; the delay and the output of
   its first step are base and every later step multiplies them by factor
   (base * factor^(k-1) on step k). exponential(100, 2) under take(3) gives
   the delays 100, 200, 400 and Done on the 4th call. *)
ExponentialDelays ==
    Called(1) =>
        LET res == last[1].res
            k == calls[1]
        IN /\ sched.op = "exponential" =>
                /\ res.tag = "Continue"
                /\ res.out = Dur(res.delay)
                /\ res.delay = IF k = 1 THEN sched.base
                               ELSE sched.factor * last[1].prev.delay
           /\ sched = take(exponential(100, 2), 3) =>
                CASE k = 1 -> res = Continue(Dur(100), 100)
                  [] k = 2 -> res = Continue(Dur(200), 200)
                  [] k = 3 -> res = Continue(Dur(400), 400)
                  [] OTHER -> res.tag = "Done"

ExponentialDelaysWitness ==
    /\ sched = take(exponential(100, 2), 3)
    /\ calls[1] = 4
    /\ last[1].res.tag = "Done"
    /\ last[1].prev = Continue(Dur(400), 400)

---------------------------------------------------------------------------
IsFixed == sched.op = "fixed" /\ sched.window > 0

(* The time from the first step of driver 1 to its latest step. *)
ElapsedAtLast == last[1].now - cells[stepFn[1].cell].meta.start

(* C17 as stated: every delay of fixed(interval), interval > 0, lies in the
   half-open range [0, interval). *)
FixedDelayBelowInterval ==
    (IsFixed /\ Called(1)) =>
        /\ last[1].res.tag = "Continue"
        /\ last[1].res.delay >= 0
        /\ last[1].res.delay < sched.window

(* C17: every delay of fixed(interval), interval > 0, lies in the closed range
   [0, interval]: never negative, never larger than the interval, and equal to
   the interval on the first step and whenever the time elapsed since the
   first step is a multiple of the interval. *)
FixedDelayWithinInterval ==
    (IsFixed /\ Called(1)) =>
        /\ last[1].res.tag = "Continue"
        /\ last[1].res.delay >= 0
        /\ last[1].res.delay <= sched.window
        /\ calls[1] = 1 => last[1].res.delay = sched.window
        /\ ElapsedAtLast % sched.window = 0 => last[1].res.delay = sched.window

FixedDelayWithinIntervalWitness ==
    /\ IsFixed /\ sched.window = 3
    /\ calls[1] = 2
    /\ last[1].prev.delay = 3
    /\ last[1].now = 4 /\ last[1].prevNow = 0
    /\ last[1].res.delay = 2

(* C18: when the action run between two steps of fixed(interval) takes longer
   than the interval (the step comes later than the previous step's delay plus
   the interval), the step returns delay 0 and the action runs again at once. *)
FixedOverrunRunsImmediately ==
    (/\ IsFixed /\ calls[1] >= 2
     /\ last[1].now - last[1].prevNow > last[1].prev.delay + sched.window)
    => last[1].res = Continue(Num(calls[1] - 1), 0)

---------------------------------------------------------------------------
(* C19: spaced(d) never stops: step k returns Continue with output k - 1 and
   delay exactly d, whatever now and the input are; forever is spaced(0). *)
SpacedConstantDelay ==
    Called(1) =>
        /\ sched.op = "spaced" => last[1].res = Continue(Num(calls[1] - 1), sched.d)
        /\ sched = forever => last[1].res = Continue(Num(calls[1] - 1), 0)

SpacedConstantDelayWitness ==
    /\ sched = spaced(2)
    /\ calls[1] = 3
    /\ last[1].now > last[1].prevNow
    /\ last[1].res = Continue(Num(2), 2)

IsJittered == sched.op = "modifyDelay" /\ sched.f.fn = "jitter"

(* C20: jittered(S) replaces the delay d of every Continue of S by
   d*0.8*(1-r) + d*1.2*r for the random draw r = rnd / RandomDen of the call,
   which lies within [0.8*d, 1.2*d]; S's output and its Continue / Done
   status are unchanged. *)
JitteredWithinBounds ==
    (IsJittered /\ Called(1)) =>
        LET inner == ResultAt(last[1].ev, <<1>>)
            res == last[1].res
            rnd == last[1].rnd
        IN IF inner.tag = "Continue"
           THEN /\ res.tag = "Continue"
                /\ res.out = inner.out
                /\ 10 * RandomDen * res.delay
                      = inner.delay * 8 * (RandomDen - rnd) + inner.delay * 12 * rnd
                /\ 10 * res.delay >= 8 * inner.delay
                /\ 10 * res.delay <= 12 * inner.delay
           ELSE res = inner

JitteredWithinBoundsWitness ==
    /\ sched = jittered(spaced(100))
    /\ calls[1] = 2
    /\ last[1].rnd > 0
    /\ last[1].res.tag = "Continue"
    /\ last[1].res.delay > 100 /\ last[1].res.delay < 120
    /\ last[1].prev = Continue(Num(0), 80)

---------------------------------------------------------------------------
(* The documented delays of fibonacci(100 ms), in milliseconds. *)
FibonacciDelays == <<100, 100, 200, 300, 500, 800, 1300, 2100, 3400, 5500>>

(* C21: fibonacci(one) never stops; its delays, equal to its outputs, are
   one, one, 2*one, 3*one, 5*one, 8*one, ...: the first two delays are one and
   each later delay is the sum of the two before it. *)
FibonacciFromOne ==
    (sched.op = "fibonacci" /\ Called(1)) =>
        LET res == last[1].res
            k == calls[1]
        IN /\ res.tag = "Continue"
           /\ res.out = Dur(res.delay)
           /\ k <= 2 => res.delay = sched.one
           /\ (sched.one = 100 /\ k \in DOMAIN FibonacciDelays) =>
                 res.delay = FibonacciDelays[k]

---------------------------------------------------------------------------
(* The calls of the user function of the combinator at position p. *)
HooksAt(ev, p) == {i \in DOMAIN ev : ev[i].e = "hook" /\ ev[i].at = p}

(* C22: while(S, predicate): on each call where S returns Continue, predicate
   is evaluated once, on the metadata of that call extended with that step's
   output and delay; when it answers true the step's result is returned
   unchanged, and when it answers false the call returns Done with that same
   step's output. A Done or a failure of S is returned without the predicate. *)
WhilePassesOrStops ==
    (sched.op = "while" /\ Called(1)) =>
        LET c == last[1]
            inner == ResultAt(c.ev, <<1>>)
        IN IF inner.tag = "Continue"
           THEN /\ Cardinality(HooksAt(c.ev, <<>>)) = 1
                /\ \A i \in HooksAt(c.ev, <<>>) :
                      /\ c.ev[i].arg.output = inner.out
                      /\ c.ev[i].arg.duration = inner.delay
                      /\ c.ev[i].arg.now = c.now
                      /\ c.ev[i].arg.input = c.input
                      /\ c.ev[i].ok =>
                            c.res = IF c.ev[i].val THEN inner ELSE Done(inner.out)
           ELSE /\ HooksAt(c.ev, <<>>) = {}
                /\ c.res = inner

WhilePassesOrStopsWitness ==
    /\ sched = while_(Counter, [fn |-> "retryable"])
    /\ calls[1] = 2
    /\ last[1].prev = Continue(Num(0), 0)
    /\ ~last[1].input.retryable
    /\ last[1].res = Done(Num(1))

---------------------------------------------------------------------------
(* On how many of its first k calls a schedule of Bases continues when it is
   driven alone; the last two of Bases depend on more than the call count. *)
ContinuesAlone(i, k) ==
    CASE Bases[i] \in {spaced(1), exponential(1, 2), Counter} -> k
      [] Bases[i] = recurs(2) -> Min(k, 2)
      [] Bases[i] = duration(1) -> Min(k, 1)

(* C23: take(n) over a schedule S is while(attempt <= n): calls 1..n return
   S's result unchanged, the call after n continuing calls returns Done with
   S's output when S continues, so the driver continues on at most n calls, and on exactly
   min(n, c) calls when S alone continues on c calls. *)
TakeLimits ==
    \A i \in DOMAIN Bases, n \in Times :
        (sched = take(Bases[i], n) /\ Called(1)) =>
            LET c == last[1]
                inner == ResultAt(c.ev, <<1>>)
                earlier == conts[1] - (IF c.res.tag = "Continue" THEN 1 ELSE 0)
            IN /\ conts[1] <= n
               /\ calls[1] <= n => c.res = inner
               /\ (inner.tag = "Continue" /\ earlier = n) => c.res = Done(inner.out)
               /\ i <= 5 => conts[1] = Min(n, ContinuesAlone(i, calls[1]))

TakeLimitsWitness ==
    /\ sched = take(exponential(1, 2), 2)
    /\ calls[1] = 3 /\ conts[1] = 2
    /\ last[1].prev = Continue(Dur(2), 2)
    /\ last[1].res = Done(Dur(4))

(* C24: toStep never fails. When the step factory fails (cron over an
   expression that does not parse, alone or under take), the extraction still
   yields a step function, and every call of it fails with the factory's
   cause: it returns neither Continue nor Done. A well formed cron continues
   with the time to its next occurrence. *)
FailedFactory(S) ==
    \/ S.op = "cron" /\ ~S.expression.wellFormed
    \/ S.op = "while" /\ S.self.op = "cron" /\ ~S.self.expression.wellFormed

ToStepNeverFails ==
    /\ \A d \in drivers : stepFn[d].extracted => "failed" \notin DOMAIN cells[stepFn[d].cell]
    /\ (FailedFactory(sched) /\ Called(1)) =>
           /\ last[1].res = Failure(Cause(CronParseError))
           /\ conts[1] = 0
    /\ (sched.op = "cron" /\ sched.expression.wellFormed /\ Called(1)) =>
           /\ last[1].res.tag = "Continue"
           /\ (last[1].now + last[1].res.delay) % sched.expression.every = 0
           /\ last[1].res.delay \in 1..sched.expression.every

ToStepNeverFailsWitness ==
    /\ sched = cron(CronExpressions[3])
    /\ stepFn[1].extracted
    /\ calls[1] = 2
    /\ last[1].prev = Failure(Cause(CronParseError))
    /\ last[1].res = Failure(Cause(CronParseError))

(* C26: the metadata tracker of a driver. The first call has attempt 1, start
   equal to its now, elapsed 0 and elapsedSincePrevious 0; every later call has
   the attempt of the call before plus one, the same start, elapsed equal to
   its now minus start and elapsedSincePrevious equal to its now minus the now
   of the call before; now and input are those passed to the call, whatever
   the clock reads. *)
TrackerAdvances ==
    (sched = Echo /\ calls'[1] = calls[1] + 1) =>
        LET c == last'[1]
            md == c.res.out
        IN /\ c.res.tag = "Continue"
           /\ md.now = c.now /\ md.input = c.input
           /\ md.elapsed = c.now - md.start
           /\ IF calls[1] = 0
              THEN md.attempt = 1 /\ md.start = c.now /\ md.elapsedSincePrevious = 0
              ELSE /\ md.attempt = last[1].res.out.attempt + 1
                   /\ md.start = last[1].res.out.start
                   /\ md.elapsedSincePrevious = c.now - last[1].now

MetadataTracker == [][TrackerAdvances]_vars

MetadataTrackerWitness ==
    /\ sched = Echo /\ calls[1] = 3 /\ clock = 0
    /\ last[1].now = 2 /\ last[1].prevNow = 1
    /\ last[1].res.out.attempt = 3 /\ last[1].res.out.start = 0
    /\ last[1].res.out.elapsed = 2 /\ last[1].res.out.elapsedSincePrevious = 1

(* C25: a continuing call of the sleeping driver reads the clock, steps the
   schedule, sleeps for the computed delay and only then returns: the call has
   returned only when the clock has reached its now plus its delay, so the next
   call starts no earlier than that, and the elapsedSincePrevious of a
   continuing call is at least the duration of the continuing call before. *)
SleepThenReturn ==
    /\ (sleeper.res.tag = "Continue" /\ ~sleeper.sleeping) =>
           /\ sleeper.returned.tag = "Returned"
           /\ sleeper.meta.now = sleeper.now
           /\ sleeper.meta.duration = sleeper.res.delay
           /\ clock >= sleeper.now + sleeper.res.delay
    /\ (sleeper'.calls = sleeper.calls + 1 /\ sleeper.res.tag = "Continue") =>
           /\ sleeper'.now >= sleeper.now + sleeper.res.delay
           /\ sleeper'.res.tag = "Continue" =>
                  sleeper'.meta.elapsedSincePrevious >= sleeper.meta.duration

SleepsBeforeReturning == [][SleepThenReturn]_vars

SleepsBeforeReturningWitness ==
    /\ sched = spaced(2)
    /\ sleeper.calls = 2 /\ sleeper.now = 3 /\ ~sleeper.sleeping
    /\ sleeper.returned.tag = "Returned"
    /\ sleeper.meta.attempt = 2
    /\ sleeper.meta.elapsedSincePrevious = 3
    /\ clock = 5

(* C27: duration(d) continues exactly once: the first step of a driver returns
   Continue with output d and delay d, and every later step returns Done. *)
DurationOnce ==
    \A d \in Intervals :
        (sched = duration(d) /\ Called(1)) =>
            /\ calls[1] = 1 => last[1].res = Continue(Dur(d), d)
            /\ calls[1] > 1 => last[1].res.tag = "Done"
            /\ conts[1] = 1

DurationOnceWitness ==
    /\ sched = duration(2) /\ calls[1] = 3 /\ conts[1] = 1
    /\ last[1].res.tag = "Done" /\ last[1].prev.tag = "Done"

(* C28: during(d). The first step has elapsed time 0; a later step has the
   elapsed time of the step before plus the time between the two. A step
   continues, with zero delay and the elapsed time as its output, if and only
   if that elapsed time is at most d, and returns Done otherwise. *)
DuringStep ==
    \A d \in Intervals :
    (sched = during(d) /\ calls'[1] = calls[1] + 1) =>
        LET c == last'[1]
            e == IF calls[1] = 0 THEN 0 ELSE last[1].res.out.ms + (c.now - last[1].now)
        IN /\ c.res.tag \in {"Continue", "Done"}
           /\ c.res.tag = "Continue" <=> e <= d
           /\ c.res.tag = "Continue" => c.res = Continue(Dur(e), 0)
           /\ c.res.tag = "Done" => c.res.out = Dur(e)

DuringWithinDuration == [][DuringStep]_vars

DuringWithinDurationWitness ==
    /\ sched = during(1) /\ calls[1] = 3
    /\ last[1].prev = Continue(Dur(1), 0) /\ last[1].prevNow = 1
    /\ last[1].res = Done(Dur(2)) /\ last[1].now = 2

(* C29 as stated: identity and passthrough return, on every call, Continue
   with the call's input as output and a zero delay. *)
EchoAlwaysContinues ==
    (sched.op \in {"identity", "passthrough"} /\ Called(1)) =>
        last[1].res = Continue(last[1].input, 0)

(* C29: identity returns Continue with the call's input and a zero delay on
   every call; passthrough(S) replaces the output of S's step by the call's
   input and keeps S's decision and delay: Continue(input, S's delay) when S
   continues, Done(input) when S is Done, S's failure when S fails. *)
EchoesInput ==
    /\ (sched = identity /\ Called(1)) => last[1].res = Continue(last[1].input, 0)
    /\ (sched.op = "passthrough" /\ Called(1)) =>
           LET inner == ResultAt(last[1].ev, <<1>>)
           IN last[1].res =
                 CASE inner.tag = "Continue" -> Continue(last[1].input, inner.delay)
                   [] inner.tag = "Done" -> Done(last[1].input)
                   [] inner.tag = "Fail" -> inner

EchoesInputWitness ==
    /\ sched = passthrough(recurs(2)) /\ calls[1] = 3
    /\ last[1].prev = Continue(HttpError(401, FALSE), 0)
    /\ last[1].res = Done(HttpError(503, TRUE))

(* C30: tapInput(S, f) runs f on the call's input before S's step, and
   tapOutput(S, f) runs f on the output of S's continuing step after it; when
   f succeeds the call returns exactly what S's step returned, and S is stepped
   exactly once in the call. *)
TapsKeepResult ==
    (sched.op \in {"tapInput", "tapOutput"} /\ Called(1)) =>
        LET ev == last[1].ev
            taps == HooksAt(ev, <<>>)
            steps == StepsAt(ev, <<1>>)
        IN /\ sched.op = "tapInput" =>
                 /\ taps = {1} /\ ev[1].arg = last[1].input
                 /\ ev[1].ok => Cardinality(steps) = 1
           /\ sched.op = "tapOutput" =>
                 /\ Cardinality(steps) = 1
                 /\ \A i \in steps :
                       /\ ev[i].res.tag = "Continue" =>
                              taps = {i + 1} /\ ev[i + 1].arg = ev[i].res.out
                       /\ ev[i].res.tag # "Continue" => taps = {}
           /\ (\A i \in taps : ev[i].ok) =>
                 /\ Cardinality(steps) = 1
                 /\ last[1].res = ResultAt(ev, <<1>>)

TapsKeepResultWitness ==
    /\ sched = tapOutput(exponential(1, 2), [fn |-> "log"])
    /\ calls[1] = 2
    /\ last[1].res = Continue(Dur(2), 2)
    /\ Len(last[1].ev) = 3
    /\ last[1].ev[2].e = "hook" /\ last[1].ev[2].arg = Dur(2)

(* C31: the production retry policy, exponential(250 ms) |> either(spaced(10 s))
   |> jittered |> while(input.retryable), never returns a delay above 10 s. *)
ProductionDelayCapped ==
    (sched = productionRetrySchedule /\ Called(1) /\ last[1].res.tag = "Continue") =>
        last[1].res.delay <= 10000

(* C32: fixed(interval) and windowed(interval) are the same state machine.
   Stepped side by side with the same now and input on every call they return
   the same result, and each alone returns Continue with output attempt - 1
   and delay interval - (elapsed mod interval), elapsed counted from the first
   call (delay 0 when the interval is 0); neither returns Done. *)
FixedIsWindowed ==
    \A d \in Intervals :
        /\ (sched = both(fixed(d), windowed(d)) /\ Called(1)) =>
               /\ ResultAt(last[1].ev, <<1>>) = ResultAt(last[1].ev, <<2>>)
               /\ ResultAt(last[1].ev, <<1>>).tag = "Continue"
               /\ conts[1] = calls[1]
        /\ (sched \in {fixed(d), windowed(d)} /\ Called(1)) =>
               /\ last[1].res =
                     Continue(Num(calls[1] - 1),
                              IF d = 0 THEN 0 ELSE d - (ElapsedAtLast % d))
               /\ conts[1] = calls[1]

FixedIsWindowedWitness ==
    /\ sched = both(fixed(3), windowed(3))
    /\ calls[1] = 3
    /\ last[1].now = 5 /\ last[1].prevNow = 2
    /\ last[1].prev.delay = 2
    /\ ResultAt(last[1].ev, <<1>>) = Continue(Num(2), 2)
    /\ ResultAt(last[1].ev, <<2>>) = Continue(Num(2), 2)

(* C33: every Continue carries a delay >= 0. For every built-in constructor
   and every combinator over them, on every call with a non-decreasing now,
   each step function that ran in the call and continued, the outermost one
   included, returned a delay that is not negative. *)
DelaysNonNegative ==
    Called(1) =>
        /\ last[1].res.tag = "Continue" => last[1].res.delay >= 0
        /\ \A i \in DOMAIN last[1].ev :
              (last[1].ev[i].e = "step" /\ last[1].ev[i].res.tag = "Continue") =>
                  last[1].ev[i].res.delay >= 0

DelaysNonNegativeWitness ==
    /\ sched = addDelay(fixed(2), 2)
    /\ calls[1] = 2 /\ last[1].now = 1 /\ last[1].prevNow = 0
    /\ ResultAt(last[1].ev, <<1>>) = Continue(Num(1), 1)
    /\ last[1].res = Continue(Num(1), 3)

(* C34: eitherWith keeps no memory of a side having been Done. Its closure
   holds the two step functions and nothing else; on every call the left side
   is stepped from its own closure and, unless it fails, so is the right side,
   whatever earlier calls returned; and the result is a function of the two
   results of that call: Continue with the smaller delay when both continue,
   Continue with the delay of the side that continues when one is Done, Done
   when both are Done. *)
EitherWithStepsBoth ==
    (sched.op = "eitherWith" /\ calls'[1] = calls[1] + 1) =>
        LET c == last'[1]
            st == cells[stepFn[1].cell]
            l == Step(sched.self, st.left, <<1>>, c.now, c.input, c.rnd).res
            r == Step(sched.other, st.right, <<2>>, c.now, c.input, c.rnd).res
        IN /\ DOMAIN st = {"left", "right"}
           /\ Cardinality(StepsAt(c.ev, <<1>>)) = 1
           /\ ResultAt(c.ev, <<1>>) = l
           /\ l.tag = "Fail" => c.res = l /\ StepsAt(c.ev, <<2>>) = {}
           /\ l.tag # "Fail" =>
                 /\ Cardinality(StepsAt(c.ev, <<2>>)) = 1
                 /\ ResultAt(c.ev, <<2>>) = r
                 /\ r.tag = "Fail" => c.res = r
                 /\ (l.tag = "Continue" /\ r.tag = "Continue") =>
                       c.res.tag = "Continue" /\ c.res.delay = Min(l.delay, r.delay)
                 /\ (l.tag = "Continue" /\ r.tag = "Done") =>
                       c.res.tag = "Continue" /\ c.res.delay = l.delay
                 /\ (l.tag = "Done" /\ r.tag = "Continue") =>
                       c.res.tag = "Continue" /\ c.res.delay = r.delay
                 /\ (l.tag = "Done" /\ r.tag = "Done") => c.res.tag = "Done"

EitherWithMemoryless == [][EitherWithStepsBoth]_vars

EitherWithMemorylessWitness ==
    /\ sched = either(while_(spaced(1), [fn |-> "retryable"]), take(spaced(2), 2))
    /\ calls[1] = 4
    /\ last[1].prev.tag = "Done"
    /\ ResultAt(last[1].ev, <<1>>).tag = "Continue"
    /\ ResultAt(last[1].ev, <<2>>).tag = "Done"
    /\ last[1].res.tag = "Continue" /\ last[1].res.delay = 1

(* The events of a call that belong to side k of a binary combinator. *)
Under(ev, k) == {i \in DOMAIN ev : Len(ev[i].at) >= 1 /\ ev[i].at[1] = k}

(* C35: in bothWith and eitherWith the left side is stepped before the right
   side on every call; when the left step fails, the call returns that
   failure, the right side is not stepped and its closure is left unchanged;
   otherwise the right side is stepped once. *)
LeftStepsFirst ==
    (sched.op \in {"bothWith", "eitherWith"} /\ calls'[1] = calls[1] + 1) =>
        LET ev == last'[1].ev
            before == cells[stepFn[1].cell]
            after == cells'[stepFn[1].cell]
            l == ResultAt(ev, <<1>>)
        IN /\ Cardinality(StepsAt(ev, <<1>>)) = 1
           /\ \A i \in Under(ev, 1), j \in Under(ev, 2) : i < j
           /\ l.tag = "Fail" =>
                 /\ Under(ev, 2) = {}
                 /\ after.right = before.right
                 /\ last'[1].res = l
           /\ l.tag # "Fail" => Cardinality(StepsAt(ev, <<2>>)) = 1

LeftBeforeRight == [][LeftStepsFirst]_vars

LeftBeforeRightWitness ==
    /\ sched = both(tapInput(spaced(1), [fn |-> "failsOnInput"]), exponential(1, 2))
    /\ calls[1] = 3
    /\ last[1].prev.tag = "Fail"
    /\ last[1].res.tag = "Continue" /\ last[1].res.delay = 2
    /\ ResultAt(last[1].ev, <<2>>) = Continue(Dur(2), 2)

(* C36: andThen extracts the second schedule on the call where the first one
   is first Done, and its tracker starts there. After recurs(n), whose calls
   1..n continue, call n + 1 is the first step of the second schedule:
   exponential(base) returns base and then base * factor^k on the k-th call
   after it, and a schedule returning its metadata shows attempt 1, start
   equal to the now of that call and elapsed 0, then an attempt one higher,
   the same start and elapsed = now - start on each later call. *)
SecondStartsAfresh ==
    \A n \in Times :
        /\ (sched = andThen(recurs(n), exponential(1, 2)) /\ calls'[1] = calls[1] + 1) =>
               IF calls'[1] <= n
               THEN last'[1].res = Continue(Num(calls'[1] - 1), 0)
               ELSE last'[1].res =
                       Continue(Dur(Pow(2, calls'[1] - n - 1)), Pow(2, calls'[1] - n - 1))
        /\ (sched = andThen(recurs(n), Echo) /\ calls'[1] = calls[1] + 1) =>
               LET c == last'[1]
                   md == c.res.out
               IN IF calls'[1] <= n
                  THEN c.res = Continue(Num(calls'[1] - 1), 0)
                  ELSE /\ c.res.tag = "Continue"
                       /\ md.now = c.now
                       /\ md.elapsed = c.now - md.start
                       /\ IF calls'[1] = n + 1
                          THEN /\ md.attempt = 1 /\ md.start = c.now
                               /\ md.elapsedSincePrevious = 0
                          ELSE /\ md.attempt = last[1].res.out.attempt + 1
                               /\ md.start = last[1].res.out.start
                               /\ md.elapsedSincePrevious = c.now - last[1].now

AndThenExtractsLazily == [][SecondStartsAfresh]_vars

AndThenExtractsLazilyWitness ==
    /\ sched = andThen(recurs(2), Echo)
    /\ calls[1] = 3
    /\ last[1].prev = Continue(Num(1), 0) /\ last[1].prevNow = 0
    /\ last[1].now = 2
    /\ last[1].res.out.attempt = 1
    /\ last[1].res.out.start = 2
    /\ last[1].res.out.elapsed = 0

(* The closure of the andThenResult of the schedule driven by driver 1. *)
AndThenClosure(c) == IF sched.op = "andThenResult" THEN c ELSE c.inner

(* C37: andThen / andThenResult switch to the second schedule only when the
   first one is Done. On a call where the step of the first schedule fails,
   the call returns that failure, nothing of the second schedule runs, the
   phase stays on the first schedule, and the next call steps the first
   schedule again. *)
FailureKeepsPhase ==
    (IsAndThen /\ calls'[1] = calls[1] + 1) =>
        LET ev == last'[1].ev
            after == AndThenClosure(cells'[stepFn[1].cell])
            failed(e) == StepsAt(e, LeftAt) # {} /\ ResultAt(e, LeftAt).tag = "Fail"
        IN /\ failed(ev) =>
                 /\ last'[1].res = ResultAt(ev, LeftAt)
                 /\ \A i \in DOMAIN ev : Len(ev[i].at) <= Len(AndThenAt)
                                         \/ ev[i].at[Len(AndThenAt) + 1] = 1
                 /\ after.currentSide = 1 /\ after.hasStep
           /\ (calls[1] > 0 /\ failed(last[1].ev)) => StepsAt(ev, LeftAt) # {}

AndThenFailureStays == [][FailureKeepsPhase]_vars

AndThenFailureStaysWitness ==
    /\ sched = andThen(take(tapInput(spaced(1), [fn |-> "failsOnInput"]), 1),
                       exponential(1, 2))
    /\ calls[1] = 3
    /\ last[1].prev.tag = "Fail"
    /\ ResultAt(last[1].ev, LeftAt).tag = "Done"
    /\ last[1].res = Continue(Dur(1), 1)

(* C38: tapOutput runs f only on a call where the schedule it wraps returns
   Continue: when that schedule is Done or fails, f does not run and the
   result passes through. tapInput runs f once on every call, the call on
   which the wrapped schedule is Done included, and when f fails the wrapped
   schedule is not stepped on that call and the call fails with f's cause. *)
TapsRunWhenDue ==
    (sched.op \in {"tapInput", "tapOutput"} /\ Called(1)) =>
        LET ev == last[1].ev
            taps == HooksAt(ev, <<>>)
        IN /\ sched.op = "tapOutput" =>
                 LET inner == ResultAt(ev, <<1>>)
                 IN /\ Cardinality(taps) = IF inner.tag = "Continue" THEN 1 ELSE 0
                    /\ inner.tag # "Continue" => last[1].res = inner
           /\ sched.op = "tapInput" =>
                 /\ Cardinality(taps) = 1
                 /\ \A i \in taps :
                       IF ev[i].ok
                       THEN StepsAt(ev, <<1>>) # {}
                       ELSE /\ \A j \in DOMAIN ev : j # i => ev[j].at = <<>>
                            /\ StepsAt(ev, <<1>>) = {}
                            /\ last[1].res = Failure(ev[i].cause)

TapsRunWhenDueWitness ==
    /\ sched = tapOutput(recurs(2), [fn |-> "log"])
    /\ calls[1] = 3
    /\ last[1].prev = Continue(Num(1), 0)
    /\ last[1].res = Done(Num(2))
    /\ ResultAt(last[1].ev, <<1>>) = Done(Num(2))
    /\ HooksAt(last[1].ev, <<>>) = {}

(* C39: the sleeping driver runs its tracker and sleeps only on a call where
   the schedule continues. A call that is Done or fails returns at once
   without sleeping and leaves the tracker (attempt, start, previous) as it
   was; a continuing call reports an attempt equal to the number of Continue
   results of the driver so far, that call included, and a start equal to the
   now of the first continuing call. *)
TracksContinuesOnly ==
    (sleeper'.calls = sleeper.calls + 1) =>
        IF sleeper'.res.tag = "Continue"
        THEN /\ sleeper'.sleeping
             /\ sleeper'.conts = sleeper.conts + 1
             /\ sleeper'.meta.attempt = sleeper'.conts
             /\ sleeper'.meta.now = clock
             /\ sleeper'.meta.start = IF sleeper.conts = 0 THEN clock ELSE sleeper.meta.start
             /\ sleeper'.metaFn.n = sleeper.metaFn.n + 1
        ELSE /\ ~sleeper'.sleeping
             /\ sleeper'.returned = sleeper'.res
             /\ sleeper'.conts = sleeper.conts
             /\ sleeper'.metaFn = sleeper.metaFn
             /\ sleeper'.meta = sleeper.meta

MetadataOnContinueOnly == [][TracksContinuesOnly]_vars

MetadataOnContinueOnlyWitness ==
    /\ sched = while_(spaced(1), [fn |-> "retryable"])
    /\ sleeper.withMetadata /\ ~sleeper.sleeping
    /\ sleeper.calls = 3 /\ sleeper.conts = 2
    /\ sleeper.res.tag = "Continue"
    /\ sleeper.returned.tag = "Returned"
    /\ sleeper.returned.value.attempt = 2
    /\ sleeper.returned.value.start = 1
    /\ sleeper.returned.value.elapsedSincePrevious = 2
====
